---- MODULE Spec2Model ----
(***************************************************************************)
(* Verification model of FontSrt2: family-name normalisation, similarity   *)
(* merge, path planning and the move/merge subsystem.                      *)
(*                                                                         *)
(* Strings are TLA+ strings; TLC evaluates Len, SubSeq and \o on them, so  *)
(* the Rust string routines are translated character by character.         *)
(* Only ASCII text is drawn as input, hence byte offsets (str::find, slice *)
(* bounds) and character offsets (chars().nth) coincide.                   *)
(***************************************************************************)
EXTENDS Integers, Sequences, FiniteSets, TLC

VARIABLES
    \* ---- normalize_family_name harness (utils/naming.rs) ----
    nName,      \* the raw family name handed to normalize_family_name
    nOnce,      \* normalize_family_name(nName), "?" before the call
    nTwice,     \* normalize_family_name(nOnce), "?" before the call
    nPc         \* "idle" | "start" | "once" | "twice"

varsNorm == <<nName, nOnce, nTwice, nPc>>

VARIABLES
    \* ---- organize_fonts (organizer/processor.rs) ----
    config,                 \* Config: naming_pattern, group_by_foundry
    reader,                 \* the metadata reader's answer for every directory entry
    fsFiles,                \* file system: path (relative to dir) -> content of the file
    fsDirs,                 \* file system: the directories that exist under dir
    processed_files,        \* the Processed-set
    font_metadata_map,      \* the Metadata Store: path -> FontMetadata
    font_signatures,        \* signature -> sequence of paths
    scanned,                \* directory entries the parallel scan has handled
    all_families,           \* Vec<(family key, fonts)> after the sort by size
    merged_families,        \* keys marked as merged by the first pass
    primary_families,       \* keys chosen as primary, in order
    merged_family_groups,   \* bucket key -> sequence of paths
    pending_families,       \* bucket keys the move loop has not visited yet
    family_name,            \* bucket being processed ("" when none)
    family_dir,             \* its directory
    font_group,             \* fonts of the bucket still to be visited
    moveLog,                \* every safe_move_file call: [src, dest, res, key, dir]
    skipLog,                \* paths skipped by the Processed-set check, in order
    dirFailed,              \* bucket keys whose directory could not be created
    faults,                 \* number of failed system calls injected so far
    oPc,                    \* "idle" | "setup" | "scan" | "group" | "merge" | "families" | "fonts" | "done"
    oResult                 \* "?" | "Ok" | "Err"

varsOrg == <<config, reader, fsFiles, fsDirs, processed_files, font_metadata_map,
             font_signatures, scanned, all_families, merged_families, primary_families,
             merged_family_groups, pending_families, family_name, family_dir, font_group,
             moveLog, skipLog, dirFailed, faults, oPc, oResult>>

VARIABLES
    \* ---- safe_move_file harness (utils/file.rs) ----
    xFiles,     \* file system before / after the call
    xBefore,    \* file system when the call was made
    xSrc,       \* source path
    xDest,      \* destination path
    xRes,       \* "?" | "Ok" | "Err"
    xCalls,     \* the system calls the function made
    xPc         \* "idle" | "call" | "done"

varsFile == <<xFiles, xBefore, xSrc, xDest, xRes, xCalls, xPc>>

VARIABLES
    \* ---- safe_move_directory / merge_directories (utils/file.rs) ----
    dFiles,     \* file system: path -> content
    dDirs,      \* file system: directories
    dStack,     \* merge_directories call frames: [src, dest, todo], innermost first
    dSrc,       \* src_dir of the calls
    dDest,      \* dest_dir of the calls
    dResults,   \* results of the completed safe_move_directory calls
    dStart,     \* file system at the start of each call: [files, dirs]
    dFaults,    \* failed system calls injected so far
    dKept,      \* the subdirectories fs::remove_dir failed on
    dPc         \* "idle" | "ready" | "merging"

varsDir == <<dFiles, dDirs, dStack, dSrc, dDest, dResults, dStart, dFaults, dKept, dPc>>

VARIABLES
    \* ---- organize_fonts of main.rs: the loop over the Metadata Store ----
    mPending    \* entries of metadata_map the loop has not visited yet

VARIABLES
    \* ---- batch_process (organizer/batch.rs, main.rs) ----
    bDirs,      \* the directories listed in the batch file, in order
    bI,         \* index of the directory the loop is at
    bOrganized, \* indices of the directories organize_fonts was run on to the end
    bGrouped,   \* indices of the directories group_by_foundry was run on
    bCause,     \* "" | "organize" | "io" | "group": what made batch_process return Err
    bResult,    \* "?" | "Ok" | "Err"
    bPc         \* "idle" | "loop" | "prompt" | "done"

varsBatch == <<bDirs, bI, bOrganized, bGrouped, bCause, bResult, bPc>>

VARIABLES
    \* ---- group_by_foundry (organizer/group.rs); the file system is dFiles, dDirs ----
    gReader,            \* the metadata reader's answer for every file: a foundry or "None"
    family_to_foundry,  \* family folder -> cleaned foundry name
    gPending,           \* families the second loop has not visited yet
    gFamily,            \* the family being moved ("" when none)
    family_folders,     \* tracking map: family -> target directory
    foundry_folders,    \* tracking map: foundry -> foundry directory
    gStart,             \* the file system when group_by_foundry was called: [files, dirs]
    gResult,            \* "?" | "Ok" | "Err"
    gPc                 \* "idle" | "scan" | "loop" | "moving" | "done"

varsGroup == <<gReader, family_to_foundry, gPending, gFamily, family_folders,
               foundry_folders, gStart, gResult, gPc>>

VARIABLES
    \* ---- format_font_name / clean_name harness (utils/naming.rs, main.rs) ----
    kJob,       \* "idle" | "format" | "clean": the function the harness calls
    kMeta,      \* the FontMetadata handed to format_font_name
    kPattern,   \* the NamingPattern handed to format_font_name
    kRaw,       \* the string handed to clean_name
    kOut,       \* the results: [formatted, main_formatted, cleaned]
    kPc         \* "idle" | "call" | "done"

varsName == <<kJob, kMeta, kPattern, kRaw, kOut, kPc>>

VARIABLES
    \* ---- the parallel scan of organize_fonts, one worker per directory entry ----
    sReader,    \* the metadata reader's answer for every regular file
    sProcessed, \* the Processed-set the run was handed
    sStore,     \* the Metadata Store: path -> FontMetadata
    sIndex,     \* the signature index: signature -> sequence of paths
    sLock,      \* mutex -> the worker holding it, "free" when none
    sMeta,      \* worker -> the metadata it extracted
    sRead,      \* the files the reader was called on
    wPc,        \* worker -> "start" | "check" | "checking" | "extract" | "store" |
                \*           "storing" | "index" | "indexing" | "done"
    sPc         \* "idle" | "scan" | "done"

varsScan == <<sReader, sProcessed, sStore, sIndex, sLock, sMeta, sRead, wPc, sPc>>

VARIABLES
    \* ---- two move loops of organize_fonts sharing one Processed-set ----
    pSet,       \* the shared Processed-set
    pHolder,    \* the mover holding the Processed-set lock, "free" when none
    pGroup,     \* mover -> the paths of its font_group still to be visited
    pPath,      \* mover -> the path of the iteration it is in
    pMoves,     \* the safe_move_file calls made: <<mover, path>>, in order
    pSkips,     \* the iterations left by `continue`: <<mover, path>>
    pPc         \* mover -> "loop" | "locked" | "insert" | "move" | "done"; "idle"

varsMovers == <<pSet, pHolder, pGroup, pPath, pMoves, pSkips, pPc>>

VARIABLES
    \* ---- the merge of similar families of organize_fonts, on drawn groups ----
    qFamilies,  \* all_families after the sort: sequence of [name, fonts]
    qFirst,     \* the first pass: [merged, primary]
    qBuckets,   \* merged_family_groups: bucket key -> fonts
    qPc         \* "idle" | "sorted" | "merged"

varsMerge == <<qFamilies, qFirst, qBuckets, qPc>>

VARIABLES
    \* ---- are_family_names_similar harness (organizer/processor.rs) ----
    aName1,     \* the first name handed to are_family_names_similar
    aName2,     \* the second name
    aSimilar,   \* the results: [fwd: (name1, name2), bwd: (name2, name1)]
    aPc         \* "idle" | "call" | "done"

varsSim == <<aName1, aName2, aSimilar, aPc>>

VARIABLES
    \* ---- organize_fonts called a second time on the same directory ----
    rRun,       \* 0 when idle, else the number of the run: 1 | 2
    rFirst      \* what the first run left: [files, dirs, store, log]

varsRerun == <<rRun, rFirst>>

vars == <<varsNorm, varsOrg, mPending, varsFile, varsDir, varsBatch, varsGroup, varsName,
          varsScan, varsMovers, varsMerge, varsSim, varsRerun>>

\* what an action of one part leaves alone: the variables of the other parts
restNorm == <<varsOrg, mPending, varsFile, varsDir, varsBatch, varsGroup, varsName,
    varsScan, varsMovers, varsMerge, varsSim, varsRerun>>
restMain == <<varsNorm, varsFile, varsDir, varsBatch, varsGroup, varsName,
    varsScan, varsMovers, varsMerge, varsSim, varsRerun>>
restOrg == <<restMain, mPending>>
restFile == <<varsNorm, varsOrg, mPending, varsDir, varsBatch, varsGroup, varsName,
    varsScan, varsMovers, varsMerge, varsSim, varsRerun>>
restDir == <<varsNorm, varsOrg, mPending, varsFile, varsBatch, varsGroup, varsName,
    varsScan, varsMovers, varsMerge, varsSim, varsRerun>>
restBatch == <<varsNorm, varsOrg, mPending, varsFile, varsDir, varsGroup, varsName,
    varsScan, varsMovers, varsMerge, varsSim, varsRerun>>
restName == <<varsNorm, varsOrg, mPending, varsFile, varsDir, varsBatch, varsGroup,
    varsScan, varsMovers, varsMerge, varsSim, varsRerun>>
restScan == <<varsNorm, varsOrg, mPending, varsFile, varsDir, varsBatch, varsGroup, varsName,
    varsMovers, varsMerge, varsSim, varsRerun>>
restMovers == <<varsNorm, varsOrg, mPending, varsFile, varsDir, varsBatch, varsGroup, varsName,
    varsScan, varsMerge, varsSim, varsRerun>>
restMerge == <<varsNorm, varsOrg, mPending, varsFile, varsDir, varsBatch, varsGroup, varsName,
    varsScan, varsMovers, varsSim, varsRerun>>
restSim == <<varsNorm, varsOrg, mPending, varsFile, varsDir, varsBatch, varsGroup, varsName,
    varsScan, varsMovers, varsMerge, varsRerun>>
restRerun == <<varsNorm, mPending, varsFile, varsDir, varsBatch, varsGroup, varsName,
    varsScan, varsMovers, varsMerge, varsSim>>
restGroup == <<varsNorm, varsOrg, mPending, varsFile, varsBatch, varsName,
    varsScan, varsMovers, varsMerge, varsSim, varsRerun>>

(***************************************************************************)
(* Bounds                                                                  *)
(***************************************************************************)
MaxPieces == 3      \* a drawn family name is a concatenation of 0..MaxPieces pieces
MaxFaults == 1      \* failed system calls injected into one organize_fonts run
MaxDirFaults == 2   \* failed system calls injected into the safe_move_directory calls
MaxCalls == 2       \* safe_move_directory calls made with the same pair
MaxBatchDirs == 3   \* directories listed in the batch file
MaxGroups == 3       \* family groups drawn for the merge
MaxGroupSize == 2    \* fonts in a drawn family group
MaxSimLen == 4       \* a name drawn over "a", "b" has 0..MaxSimLen characters
MaxRawLen == 3      \* a string drawn for clean_name has 0..MaxRawLen characters

(***************************************************************************)
(* std::str primitives                                                     *)
(***************************************************************************)
SetMin(S) == CHOOSE m \in S : \A k \in S : m <= k
SetMax(S) == CHOOSE m \in S : \A k \in S : m >= k

\* the character of s at 0-based offset i, "" when there is none (None)
CharAt(s, i) == IF i >= 0 /\ i < Len(s) THEN SubSeq(s, i + 1, i + 1) ELSE ""

\* s[from..to] with 0-based half-open bounds, as a Rust slice
Slice(s, from, to) == SubSeq(s, from + 1, to)

\* pattern p occurs in s at 0-based offset i
MatchesAt(s, p, i) == i >= 0 /\ i + Len(p) <= Len(s) /\ Slice(s, i, i + Len(p)) = p

starts_with(s, p) == MatchesAt(s, p, 0)

ends_with(s, p) == MatchesAt(s, p, Len(s) - Len(p))

\* str::find: offset of the first occurrence, -1 for None
find(s, p) ==
    LET hits == {i \in 0..(Len(s) - Len(p)) : MatchesAt(s, p, i)}
    IN IF hits = {} THEN -1 ELSE SetMin(hits)

contains(s, p) == find(s, p) >= 0

is_whitespace(c) == c = " "

is_digit(c) == c \in {"0", "1", "2", "3", "4", "5", "6", "7", "8", "9"}

\* str::trim
trim(s) ==
    LET keep == {i \in 1..Len(s) : ~is_whitespace(SubSeq(s, i, i))}
    IN IF keep = {} THEN "" ELSE SubSeq(s, SetMin(keep), SetMax(keep))

\* str::trim_matches('.')
trim_dots(s) ==
    LET keep == {i \in 1..Len(s) : SubSeq(s, i, i) # "."}
    IN IF keep = {} THEN "" ELSE SubSeq(s, SetMin(keep), SetMax(keep))

\* str::replace: non-overlapping occurrences, left to right
RECURSIVE replace(_, _, _)
replace(s, pat, rep) ==
    IF Len(pat) = 0 \/ Len(s) < Len(pat) THEN s
    ELSE IF MatchesAt(s, pat, 0)
         THEN rep \o replace(SubSeq(s, Len(pat) + 1, Len(s)), pat, rep)
         ELSE SubSeq(s, 1, 1) \o replace(SubSeq(s, 2, Len(s)), pat, rep)

\* str::split_whitespace, as a sequence of tokens
RECURSIVE split_whitespace(_)
split_whitespace(s) ==
    LET t == trim(s)
        sp == find(t, " ")
    IN IF t = "" THEN <<>>
       ELSE IF sp < 0 THEN <<t>>
       ELSE <<Slice(t, 0, sp)>> \o split_whitespace(SubSeq(t, sp + 1, Len(t)))

UpperChars == <<"A","B","C","D","E","F","G","H","I","J","K","L","M",
                "N","O","P","Q","R","S","T","U","V","W","X","Y","Z">>
LowerChars == <<"a","b","c","d","e","f","g","h","i","j","k","l","m",
                "n","o","p","q","r","s","t","u","v","w","x","y","z">>

lower_char(c) ==
    IF \E k \in 1..26 : UpperChars[k] = c
    THEN LowerChars[CHOOSE k \in 1..26 : UpperChars[k] = c]
    ELSE c

\* str::to_lowercase
RECURSIVE to_lowercase(_)
to_lowercase(s) ==
    IF s = "" THEN ""
    ELSE lower_char(SubSeq(s, 1, 1)) \o to_lowercase(SubSeq(s, 2, Len(s)))

(***************************************************************************)
(* utils/naming.rs: normalize_family_name                                  *)
(***************************************************************************)
preserve_terms == <<" Alt", " CF", " NF", " SC", " Text", " Display", " Serif", " Mono">>

embedded_preserve_terms == {"Alt", "CF", "NF", "SC", "Text", "Display"}

embedded_style_indicators ==
    <<"Bold", "Italic", "Black", "Light", "Medium", "Thin", "Regular",
      "Semibold", "SemiBold", "DemiBold", "ExtraBold", "UltraBold", "ExtraLight", "UltraLight",
      "Condensed", "Expanded", "Extended", "Narrow", "Wide", "Compressed",
      "Oblique", "Slant", "Slanted", "BoldItalic", "LightItalic", "BlackItalic", "MediumItalic",
      "ThinItalic", "SemiBoldItalic", "SemiLightItalic", "Variable", "Hairline", "Book",
      "Heavy", "Ultra", "Super", "Poster", "Title", "Caps",
      "SansBold", "SansBlack", "SansLight", "SansMedium", "SansThin", "SansRegular",
      "SansItalic", "SansBoldItalic", "SansOblique", "SansCondensed", "SansExtended">>

common_sans_families == <<"ElaSans", "CirceSans", "ModernSans", "NexaSans", "ProximaSans">>

style_indicators ==
    <<" Bold", " Italic", " Black", " Light", " Medium", " Thin", " Regular",
      " Semibold", " SemiBold", " DemiBold", " ExtraBold", " UltraBold", " ExtraLight", " UltraLight",
      " Condensed", " Expanded", " Extended", " Narrow", " Wide", " Compressed",
      " Oblique", " Slant", " Slanted", " BoldItalic", " LightItalic", " BlackItalic", " MediumItalic",
      " ThinItalic", " SemiBoldItalic", " SemiLightItalic", " Variable", " Hairline", " Book",
      " Heavy", " Ultra", " Super", " Poster", " Title">>

variant_indicators == <<" Variable ", " Var ", " Pro ", " Std ", " Bk ", " Lt ">>

suffixes == <<" Pro ", " Std ", " LT ", " MT ", " MS ", " Bk ", " Lt ", " Md ", " Bd ", " Rg ", " Sans ">>

final_style_indicators ==
    <<"Bold", "Italic", "Black", "Light", "Medium", "Thin", "Regular",
      "SemiBold", "ExtraBold", "UltraBold", "ExtraLight", "UltraLight",
      "Condensed", "Expanded", "Heavy", "Book">>

\* naming.rs 42-45: the " Variable" suffix is cut and the function returns at once
StripVariable(name) == trim(Slice(name, 0, Len(name) - 9))

\* naming.rs 66-71: any preserve term occurs as a substring
HasPreserveTerm(name) == \E k \in 1..Len(preserve_terms) : contains(name, preserve_terms[k])

\* naming.rs 73-83, Step 1: cut at the first digit when the character after
\* it is a digit or whitespace and something other than blanks precedes it
StripNumbered(name) ==
    LET digits == {i \in 0..(Len(name) - 1) : is_digit(CharAt(name, i))}
        idx    == SetMin(digits)
        prefix == trim(Slice(name, 0, idx))
        next   == CharAt(name, idx + 1)      \* "" when past the end (None)
    IN IF digits = {} THEN name
       ELSE IF prefix # "" /\ next # "" /\ (is_digit(next) \/ is_whitespace(next))
            THEN prefix
            ELSE name

\* naming.rs 108-124: a known *Sans family followed directly by a style word
StripSansFamily(name) ==
    LET hit(k) == /\ starts_with(name, common_sans_families[k])
                  /\ Len(name) > Len(common_sans_families[k])
                  /\ \E j \in 1..Len(embedded_style_indicators) :
                        starts_with(Slice(name, Len(common_sans_families[k]), Len(name)),
                                    embedded_style_indicators[j])
        hits == {k \in 1..Len(common_sans_families) : hit(k)}
    IN IF hits = {} THEN name ELSE common_sans_families[SetMin(hits)]

\* naming.rs 133-188: is indicator k a candidate of this pass of the loop
EmbeddedCandidate(name, k) ==
    LET ind    == embedded_style_indicators[k]
        pos    == find(name, ind)
        prefix == Slice(name, 0, pos)
        is_sans_family_name ==
            ends_with(prefix, "Sans") /\
            (prefix \in {"ElaSans", "CirceSans", "ModernSans", "NexaSans", "ProximaSans"}
             \/ contains(prefix, "Sans"))
        is_preserved_prefix ==
            ~is_sans_family_name /\ (ends_with(prefix, "Serif") \/ ends_with(prefix, "Mono"))
    IN /\ ind \notin embedded_preserve_terms
       /\ pos > 0
       /\ CharAt(name, pos - 1) # " "
       /\ ~is_preserved_prefix

\* naming.rs 127-220: remove the earliest embedded indicator, repeatedly
RECURSIVE StripEmbedded(_)
StripEmbedded(name) ==
    LET cands == {k \in 1..Len(embedded_style_indicators) : EmbeddedCandidate(name, k)}
        posOf(k) == find(name, embedded_style_indicators[k])
        \* pos < best_match_pos is strict: the first indicator of the list wins a tie
        best == CHOOSE k \in cands :
                    \A j \in cands : posOf(k) < posOf(j) \/ (posOf(k) = posOf(j) /\ k <= j)
        pos  == posOf(best)
        len  == Len(embedded_style_indicators[best])
        prefix == Slice(name, 0, pos)
        suffix == IF pos + len < Len(name) THEN Slice(name, pos + len, Len(name)) ELSE ""
    IN IF cands = {} THEN name
       ELSE IF Len(prefix) >= 2 THEN StripEmbedded(prefix \o suffix)
       ELSE name

\* naming.rs 235-239, Step 2: one pass over the list, in list order
RECURSIVE StripStyleSuffixes(_, _)
StripStyleSuffixes(name, k) ==
    IF k > Len(style_indicators) THEN name
    ELSE IF ends_with(name, style_indicators[k])
         THEN StripStyleSuffixes(trim(Slice(name, 0, Len(name) - Len(style_indicators[k]))), k + 1)
         ELSE StripStyleSuffixes(name, k + 1)

\* naming.rs 242-247, Step 3
RECURSIVE ReplaceVariants(_, _)
ReplaceVariants(name, k) ==
    IF k > Len(variant_indicators) THEN name
    ELSE ReplaceVariants(replace(name, variant_indicators[k], " "), k + 1)

\* naming.rs 250-255, Step 4
RECURSIVE StripSuffixes(_, _)
StripSuffixes(name, k) ==
    IF k > Len(suffixes) THEN name
    ELSE IF ends_with(name, suffixes[k])
         THEN StripSuffixes(trim(Slice(name, 0, Len(name) - Len(suffixes[k]))), k + 1)
         ELSE StripSuffixes(name, k + 1)

\* naming.rs 259-261, Step 5
EinerGrotesk(name) == IF starts_with(name, "Einer Grotesk ") THEN "Einer Grotesk " ELSE name

\* naming.rs 267-274, Step 7: fall back to the first word of the original
FirstWordFallback(name, raw) ==
    IF name # "" THEN name
    ELSE IF split_whitespace(raw) = <<>> THEN raw
    ELSE split_whitespace(raw)[1]

\* naming.rs 285-298: first final indicator (list order) whose prefix ends in Sans
FinalSansCleanup(name) ==
    LET hit(k) == LET pos == find(name, final_style_indicators[k])
                  IN pos > 0 /\ ends_with(Slice(name, 0, pos), "Sans") /\ pos >= 4
        hits == {k \in 1..Len(final_style_indicators) : hit(k)}
    IN IF hits = {} THEN name
       ELSE Slice(name, 0, find(name, final_style_indicators[SetMin(hits)]))

normalize_family_name(raw) ==
    IF ends_with(raw, " Variable") THEN StripVariable(raw)
    ELSE IF HasPreserveTerm(raw) THEN raw
    ELSE LET step1  == StripNumbered(raw)
             step15 == StripEmbedded(StripSansFamily(step1))
             step2  == StripStyleSuffixes(step15, 1)
             step3  == ReplaceVariants(step2, 1)
             step4  == StripSuffixes(step3, 1)
             step5  == EinerGrotesk(step4)
             step6  == trim(step5)
             step7  == FirstWordFallback(step6, raw)
         IN FinalSansCleanup(step7)

(***************************************************************************)
(* utils/naming.rs: clean_name, format_font_name                           *)
(***************************************************************************)
invalid_chars == {"<", ">", ":", "\"", "/", "\\", "|", "?", "*"}

\* a variant that lets the asterisk through
RECURSIVE replace_invalid_but_star(_)
replace_invalid_but_star(s) ==
    IF s = "" THEN ""
    ELSE (IF SubSeq(s, 1, 1) \in invalid_chars \ {"*"} THEN "_" ELSE SubSeq(s, 1, 1))
         \o replace_invalid_but_star(SubSeq(s, 2, Len(s)))

RECURSIVE replace_invalid(_)
replace_invalid(s) ==
    IF s = "" THEN ""
    ELSE (IF SubSeq(s, 1, 1) \in invalid_chars THEN "_" ELSE SubSeq(s, 1, 1))
         \o replace_invalid(SubSeq(s, 2, Len(s)))

clean_name(name) ==
    LET cleaned == trim_dots(trim(replace_invalid(name)))
    IN IF cleaned = "" THEN "Unknown" ELSE cleaned

DigitChars == <<"0", "1", "2", "3", "4", "5", "6", "7", "8", "9">>

\* Display of an unsigned integer (format!("{}", n))
RECURSIVE Decimal(_)
Decimal(n) ==
    IF n < 10 THEN DigitChars[n + 1]
    ELSE Decimal(n \div 10) \o DigitChars[(n % 10) + 1]

format_font_name(metadata, pattern) ==
    LET regular == to_lowercase(metadata.subfamily) = "regular"
    IN CASE pattern = "FamilySubfamily" ->
                IF regular THEN metadata.family_name
                ELSE metadata.family_name \o " (" \o metadata.subfamily \o ")"
         [] pattern = "FoundryFamilySubfamily" ->
                IF regular THEN metadata.foundry \o " " \o metadata.family_name
                ELSE metadata.foundry \o " " \o metadata.family_name
                     \o " (" \o metadata.subfamily \o ")"
         [] pattern = "FamilyWeight" ->
                metadata.family_name \o " " \o Decimal(metadata.weight)
                \o (IF metadata.is_italic THEN " Italic " ELSE "")
         [] pattern = "FoundryFamily" ->
                IF regular THEN metadata.foundry \o "_" \o metadata.family_name
                ELSE metadata.foundry \o "_" \o metadata.family_name
                     \o " (" \o metadata.subfamily \o ")"

\* Path::extension of a file name: the text after the last dot, "" for None
extension(path) ==
    LET dots == {i \in 1..(Len(path) - 1) : CharAt(path, i) = "."}
    IN IF dots = {} THEN "" ELSE Slice(path, SetMax(dots) + 1, Len(path))

\* processor.rs 348-351
lower_extension(path) ==
    IF extension(path) = "" THEN "ttf" ELSE to_lowercase(extension(path))

\* Path::join
join(dir, name) == IF dir = "" THEN name ELSE dir \o "/" \o name

\* naming.rs 356-377: build_folder_path (relative to base_dir)
build_folder_path(metadata, conf) ==
    LET normalized_family == normalize_family_name(metadata.family_name)
    IN IF conf.naming_pattern = "FoundryFamily" \/ conf.group_by_foundry
       THEN join(clean_name(metadata.foundry), clean_name(normalized_family))
       ELSE clean_name(normalized_family)

(***************************************************************************)
(* font/metadata.rs: extract_root_family                                   *)
(***************************************************************************)
MARKERS == {"Basic", "Extras", "Lines", "Shadows", "Shadow", "Sketch", "Sketch1", "Sketch2",
            "Sketch3", "Extra", "Black", "Drawn", "Rough", "Stamp", "Orn", "Titling", "Sm", "CF"}

IsMarkerOrNumeric(token) ==
    \/ \E m \in MARKERS : to_lowercase(m) = to_lowercase(token)
    \/ \A i \in 0..(Len(token) - 1) : is_digit(CharAt(token, i))

RECURSIVE JoinTokens(_, _)
JoinTokens(tokens, n) ==
    IF n = 0 THEN ""
    ELSE IF n = 1 THEN tokens[1]
    ELSE JoinTokens(tokens, n - 1) \o " " \o tokens[n]

extract_root_family(raw) ==
    LET tokens == split_whitespace(raw)
        len    == Len(tokens)
        from3  == {i \in 3..len : IsMarkerOrNumeric(tokens[i])}
        from2  == {i \in 2..len : IsMarkerOrNumeric(tokens[i])}
    IN IF len >= 3 /\ IsMarkerOrNumeric(tokens[3]) THEN tokens[1] \o " " \o tokens[2]
       ELSE IF len >= 4 /\ from3 # {} THEN JoinTokens(tokens, SetMin(from3) - 1)
       ELSE IF len > 1 /\ from2 # {} THEN JoinTokens(tokens, SetMin(from2) - 1)
       ELSE trim(raw)

(***************************************************************************)
(* organizer/processor.rs: are_family_names_similar, levenshtein_distance  *)
(***************************************************************************)
Min2(a, b) == IF a <= b THEN a ELSE b
Max2(a, b) == IF a >= b THEN a ELSE b

\* one row of the matrix: cur holds matrix[i][0..Len(cur)-1]
RECURSIVE LevRow(_, _, _, _, _)
LevRow(prev, cur, s1, s2, i) ==
    LET j    == Len(cur)
        cost == IF CharAt(s1, i - 1) = CharAt(s2, j - 1) THEN 0 ELSE 1
        v    == Min2(Min2(prev[j + 1] + 1, cur[j] + 1), prev[j] + cost)
    IN IF j > Len(s2) THEN cur
       ELSE LevRow(prev, Append(cur, v), s1, s2, i)

RECURSIVE LevRows(_, _, _, _)
LevRows(prev, s1, s2, i) ==
    IF i > Len(s1) THEN prev[Len(s2) + 1]
    ELSE LevRows(LevRow(prev, <<i>>, s1, s2, i), s1, s2, i + 1)

levenshtein_distance(s1, s2) ==
    IF Len(s1) = 0 THEN Len(s2)
    ELSE IF Len(s2) = 0 THEN Len(s1)
    ELSE LevRows([j \in 1..(Len(s2) + 1) |-> j - 1], s1, s2, 1)

common_prefix_len(a, b) ==
    LET same == {n \in 0..Min2(Len(a), Len(b)) : Slice(a, 0, n) = Slice(b, 0, n)}
    IN SetMax(same)

\* a variant without the first-character cutoff
are_family_names_similar_no_cutoff(name1, name2) ==
    LET norm1   == trim(replace(to_lowercase(name1), "_", " "))
        norm2   == trim(replace(to_lowercase(name2), "_", " "))
        words1  == split_whitespace(norm1)
        words2  == split_whitespace(norm2)
        min_len == Min2(Len(norm1), Len(norm2))
        max_distance == Max2(1, min_len \div 5)
    IN IF name1 = "" \/ name2 = "" THEN FALSE
       ELSE IF name1 = name2 THEN TRUE
       ELSE IF norm1 = norm2 THEN TRUE
       ELSE IF starts_with(norm1, norm2) \/ starts_with(norm2, norm1) THEN TRUE
       ELSE IF words1 # <<>> /\ words2 # <<>> /\ words1[1] = words2[1] /\ Len(words1[1]) >= 4
            THEN TRUE
       ELSE IF min_len >= 4 /\ common_prefix_len(norm1, norm2) >= (min_len * 7) \div 10
            THEN TRUE
       ELSE levenshtein_distance(norm1, norm2) <= max_distance

are_family_names_similar_one_way(name1, name2) ==
    LET norm1   == trim(replace(to_lowercase(name1), "_", " "))
        norm2   == trim(replace(to_lowercase(name2), "_", " "))
        words1  == split_whitespace(norm1)
        words2  == split_whitespace(norm2)
        min_len == Min2(Len(norm1), Len(norm2))
        max_distance == Max2(1, min_len \div 5)
    IN IF name1 = "" \/ name2 = "" THEN FALSE
       ELSE IF name1 = name2 THEN TRUE
       ELSE IF norm1 = norm2 THEN TRUE
       ELSE IF CharAt(norm1, 0) # CharAt(norm2, 0) THEN FALSE
       ELSE IF starts_with(norm1, norm2) THEN TRUE
       ELSE IF words1 # <<>> /\ words2 # <<>> /\ words1[1] = words2[1] /\ Len(words1[1]) >= 4
            THEN TRUE
       ELSE IF min_len >= 4 /\ common_prefix_len(norm1, norm2) >= (min_len * 7) \div 10
            THEN TRUE
       ELSE levenshtein_distance(norm1, norm2) <= max_distance

are_family_names_similar(name1, name2) ==
    LET norm1   == trim(replace(to_lowercase(name1), "_", " "))
        norm2   == trim(replace(to_lowercase(name2), "_", " "))
        words1  == split_whitespace(norm1)
        words2  == split_whitespace(norm2)
        min_len == Min2(Len(norm1), Len(norm2))
        max_distance == Max2(1, min_len \div 5)
    IN IF name1 = "" \/ name2 = "" THEN FALSE
       ELSE IF name1 = name2 THEN TRUE
       ELSE IF norm1 = norm2 THEN TRUE
       ELSE IF CharAt(norm1, 0) # CharAt(norm2, 0) THEN FALSE
       ELSE IF starts_with(norm1, norm2) \/ starts_with(norm2, norm1) THEN TRUE
       ELSE IF words1 # <<>> /\ words2 # <<>> /\ words1[1] = words2[1] /\ Len(words1[1]) >= 4
            THEN TRUE
       ELSE IF min_len >= 4 /\ common_prefix_len(norm1, norm2) >= (min_len * 7) \div 10
            THEN TRUE
       ELSE levenshtein_distance(norm1, norm2) <= max_distance

(***************************************************************************)
(* Harness for normalize_family_name: a name is drawn, normalised once and *)
(* the result is normalised again.                                         *)
(***************************************************************************)
NamePieces ==
    {"Inter", "ElaSans", "Bold", " ", " Bold", " Italic", " Variable", " Alt", " 01", "Mono"}

RECURSIVE NamesUpTo(_)
NamesUpTo(n) ==
    IF n = 0 THEN {""}
    ELSE NamesUpTo(n - 1) \cup {a \o b : a \in NamesUpTo(n - 1), b \in NamePieces}

FamilyNameInputs == NamesUpTo(MaxPieces)

InitNorm ==
    /\ nName \in FamilyNameInputs
    /\ nOnce = "?"
    /\ nTwice = "?"
    /\ nPc = "start"

NormalizeOnce ==
    /\ nPc = "start"
    /\ nOnce' = normalize_family_name(nName)
    /\ nPc' = "once"
    /\ UNCHANGED <<nName, nTwice>>
    /\ UNCHANGED restNorm

NormalizeTwice ==
    /\ nPc = "once"
    /\ nTwice' = normalize_family_name(nOnce)
    /\ nPc' = "twice"
    /\ UNCHANGED <<nName, nOnce>>
    /\ UNCHANGED restNorm

(***************************************************************************)
(* File system (std::fs), relative to the organised directory              *)
(***************************************************************************)
exists(files, dirs, path) == path \in DOMAIN files \/ path \in dirs

\* every proper ancestor directory of a relative path, and the path itself
Ancestors(path) ==
    {Slice(path, 0, i) : i \in {k \in 1..Len(path) : k = Len(path) \/ CharAt(path, k) = "/"}}

\* the results the three system calls of safe_move_file can have
SysOutcomes == [rename : BOOLEAN, copy : {"ok", "partial", "fail"}, remove : BOOLEAN]

\* number of failed system calls an outcome stands for (a rename that
\* succeeds makes the other two irrelevant: they are not called)
FaultsOf(sys) == IF sys.rename THEN 0 ELSE 1

\* outcomes that differ in a call that is never made are the same outcome
Canonical(sys) ==
    /\ sys.rename => (sys.copy = "ok" /\ sys.remove)
    /\ sys.copy # "ok" => sys.remove

Put(files, path, content) ==
    [f \in DOMAIN files \cup {path} |-> IF f = path THEN content ELSE files[f]]

Remove(files, path) == [f \in DOMAIN files \ {path} |-> files[f]]

\* the system calls made, in order, with their results
Call(op, ok) == [op |-> op, ok |-> ok]

\* a variant that treats a failed delete of the source as a failure
safe_move_file_strict_delete(files, src, dest, sys) ==
    IF sys.rename /\ src \in DOMAIN files
    THEN [files |-> Remove(Put(files, dest, files[src]), src), res |-> "Ok",
          calls |-> <<Call("rename", TRUE)>>]
    ELSE IF sys.copy = "ok" /\ src \in DOMAIN files
         THEN IF sys.remove
              THEN [files |-> Remove(Put(files, dest, files[src]), src), res |-> "Ok",
                    calls |-> <<Call("rename", FALSE), Call("copy", TRUE),
                                Call("remove", TRUE)>>]
              ELSE [files |-> Put(files, dest, files[src]), res |-> "Err",
                    calls |-> <<Call("rename", FALSE), Call("copy", TRUE),
                                Call("remove", FALSE)>>]
         ELSE IF sys.copy = "partial" /\ src \in DOMAIN files
              THEN [files |-> Put(files, dest, "partial"), res |-> "Err",
                    calls |-> <<Call("rename", FALSE), Call("copy", FALSE)>>]
              ELSE [files |-> files, res |-> "Err",
                    calls |-> <<Call("rename", FALSE), Call("copy", FALSE)>>]

\* file.rs 20-48
safe_move_file(files, src, dest, sys) ==
    IF sys.rename /\ src \in DOMAIN files
    THEN \* fs::rename succeeded
         [files |-> Remove(Put(files, dest, files[src]), src), res |-> "Ok",
          calls |-> <<Call("rename", TRUE)>>]
    ELSE \* rename failed: fs::copy(src, dest)?
         IF sys.copy = "ok" /\ src \in DOMAIN files
         THEN IF sys.remove
              THEN [files |-> Remove(Put(files, dest, files[src]), src), res |-> "Ok",
                    calls |-> <<Call("rename", FALSE), Call("copy", TRUE),
                                Call("remove", TRUE)>>]
              ELSE \* the source could not be deleted: still a success
                   [files |-> Put(files, dest, files[src]), res |-> "Ok",
                    calls |-> <<Call("rename", FALSE), Call("copy", TRUE),
                                Call("remove", FALSE)>>]
         ELSE IF sys.copy = "partial" /\ src \in DOMAIN files
              THEN \* the copy broke off after the destination was created
                   [files |-> Put(files, dest, "partial"), res |-> "Err",
                    calls |-> <<Call("rename", FALSE), Call("copy", FALSE)>>]
              ELSE [files |-> files, res |-> "Err",
                    calls |-> <<Call("rename", FALSE), Call("copy", FALSE)>>]

(***************************************************************************)
(* organizer/processor.rs: organize_fonts                                  *)
(***************************************************************************)
NamingPatterns == {"FamilySubfamily", "FoundryFamilySubfamily", "FamilyWeight", "FoundryFamily"}

\* the regular files of the scanned directory
FontFiles == {"a.ttf", "b.TTF", "c"}

Meta(family, subfamily, foundry, weight, italic) ==
    [kind |-> "Some", family_name |-> family, subfamily |-> subfamily,
     foundry |-> foundry, weight |-> weight, is_italic |-> italic]

\* what the metadata reader can answer for a file: Ok(Some(metadata)),
\* Ok(None) or Err
ReaderAnswers ==
    { Meta("Neo", "Regular", "Adobe", 400, FALSE),
      Meta("Neo Sans", "Regular", "Adobe", 400, FALSE),
      Meta("Neo Tech", "Bold Italic", "U/W", 700, TRUE),
      [Meta("", "", "", 0, FALSE) EXCEPT !.kind = "None"],
      [Meta("", "", "", 0, FALSE) EXCEPT !.kind = "Err"] }

\* files an earlier run may have left in the tree
PreExisting == {"Neo/Neo.ttf", "Neo/Neo_1.ttf"}

\* the state organize_fonts is called in, for the given reader answers and
\* the given sets of files an earlier run left
InitOrgOn(answers, trees) ==
    /\ config \in [naming_pattern : NamingPatterns, group_by_foundry : BOOLEAN]
    /\ reader \in [FontFiles -> answers]
    /\ \E old \in trees :
          /\ fsFiles = [f \in FontFiles \cup old |-> IF f \in FontFiles THEN f ELSE "old"]
          /\ fsDirs = IF old = {} THEN {} ELSE {"Neo"}
    /\ processed_files = {}
    /\ font_metadata_map = <<>>
    /\ font_signatures = <<>>
    /\ scanned = {}
    /\ all_families = <<>>
    /\ merged_families = {}
    /\ primary_families = <<>>
    /\ merged_family_groups = <<>>
    /\ pending_families = {}
    /\ family_name = ""
    /\ family_dir = ""
    /\ font_group = <<>>
    /\ moveLog = <<>>
    /\ skipLog = <<>>
    /\ dirFailed = {}
    /\ faults = 0
    /\ oPc = "setup"
    /\ oResult = "?"
    /\ mPending = {}

InitOrg == InitOrgOn(ReaderAnswers, {{}, {"Neo/Neo.ttf"}, PreExisting})

\* fonts whose family is named like the reserved folder
ReservedAnswers ==
    { Meta("duplicates", "Regular", "Adobe", 400, FALSE),
      Meta("Neo", "Bold", "Adobe", 700, FALSE),
      [Meta("", "", "", 0, FALSE) EXCEPT !.kind = "None"] }

InitReserved == InitOrgOn(ReservedAnswers, {{}})

\* file.rs 8-17: the directories after a successful ensure_directory_exists
ensure_directory_exists(dirs, dir) == dirs \cup Ancestors(dir)

\* processor.rs 143-144: the duplicates folder; its creation can fail
Setup ==
    /\ oPc = "setup"
    /\ \/ /\ fsDirs' = ensure_directory_exists(fsDirs, "duplicates")
          /\ oPc' = "scan"
          /\ UNCHANGED <<faults, oResult>>
       \/ /\ faults < MaxFaults
          /\ faults' = faults + 1
          /\ oPc' = "done"
          /\ oResult' = "Err"
          /\ UNCHANGED fsDirs
    /\ UNCHANGED <<config, reader, fsFiles, processed_files, font_metadata_map,
                   font_signatures, scanned, all_families, merged_families,
                   primary_families, merged_family_groups, pending_families, family_name,
                   family_dir, font_group, moveLog, skipLog, dirFailed>>
    /\ UNCHANGED restOrg

\* processor.rs 153: fs::read_dir(dir)? fails
ReadDirFails ==
    /\ oPc = "scan"
    /\ scanned = {}
    /\ faults < MaxFaults
    /\ faults' = faults + 1
    /\ oPc' = "done"
    /\ oResult' = "Err"
    /\ UNCHANGED <<config, reader, fsFiles, fsDirs, processed_files, font_metadata_map,
                   font_signatures, scanned, all_families, merged_families,
                   primary_families, merged_family_groups, pending_families, family_name,
                   family_dir, font_group, moveLog, skipLog, dirFailed>>
    /\ UNCHANGED restOrg

\* processor.rs 169-173
signature_of(metadata) ==
    metadata.family_name \o "_" \o Decimal(metadata.weight) \o "_"
    \o (IF metadata.is_italic THEN "true" ELSE "false")

\* processor.rs 153: what fs::read_dir(dir) lists: the regular files and the
\* subdirectories of dir, the duplicates folder among them
ScanEntries == FontFiles \cup {d \in fsDirs : ~contains(d, "/")}

\* a variant that skips a file only when the reader failed, not when it
\* found no metadata
ScanSkips_errors_only(path) ==
    \/ path \notin DOMAIN fsFiles
    \/ path \in processed_files
    \/ reader[path].kind = "Err"

\* processor.rs 159-164: the entries the scan passes over: directories,
\* processed paths, files the reader gives no metadata for
ScanSkips_listed_only(path) ==
    \/ path \notin FontFiles
    \/ path \in processed_files
    \/ reader[path].kind # "Some"

ScanSkips(path) ==
    \/ path \notin DOMAIN fsFiles        \* !path.is_file()
    \/ path \in processed_files
    \/ reader[path].kind # "Some"

\* processor.rs 155-180: one worker handles one directory entry
ScanEntry(path) ==
    /\ oPc = "scan"
    /\ path \in ScanEntries
    /\ path \notin scanned
    /\ scanned' = scanned \cup {path}
    /\ IF ScanSkips(path)
       THEN UNCHANGED <<font_metadata_map, font_signatures>>
       ELSE LET metadata  == reader[path]
                signature == signature_of(metadata)
                before    == IF signature \in DOMAIN font_signatures
                             THEN font_signatures[signature] ELSE <<>>
            IN /\ font_metadata_map' =
                      [f \in DOMAIN font_metadata_map \cup {path} |->
                          IF f = path THEN metadata ELSE font_metadata_map[f]]
               /\ font_signatures' =
                      [g \in DOMAIN font_signatures \cup {signature} |->
                          IF g = signature THEN Append(before, path) ELSE font_signatures[g]]
    /\ UNCHANGED <<config, reader, fsFiles, fsDirs, processed_files, all_families,
                   merged_families, primary_families, merged_family_groups,
                   pending_families, family_name, family_dir, font_group, moveLog, skipLog,
                   dirFailed, faults, oPc, oResult>>
    /\ UNCHANGED restOrg

\* processor.rs 195-196: the grouping key of a font
family_key(metadata) == normalize_family_name(extract_root_family(metadata.family_name))

Range(seq) == {seq[k] : k \in 1..Len(seq)}

\* every sequence that lists each element of the set once
Orders(S) == {seq \in [1..Cardinality(S) -> S] : Range(seq) = S}

\* the elements of seq that satisfy keep, in the order of seq
RECURSIVE Filter(_, _)
Filter(seq, keep) ==
    IF seq = <<>> THEN <<>>
    ELSE (IF Head(seq) \in keep THEN <<Head(seq)>> ELSE <<>>) \o Filter(Tail(seq), keep)

\* processor.rs 187-215: the store is iterated in hash-map order (any order),
\* the groups are collected in hash-map order (any order) and sorted by
\* descending size with a stable sort: equal sizes keep the arbitrary order
Group ==
    /\ oPc = "scan"
    /\ scanned = ScanEntries
    /\ \E keyOf \in {[f \in DOMAIN font_metadata_map |-> family_key(font_metadata_map[f])]} :
       \E iteration \in Orders(DOMAIN font_metadata_map) :
       \E family_groups \in
             {[k \in {keyOf[f] : f \in DOMAIN keyOf} |->
                  Filter(iteration, {f \in DOMAIN keyOf : keyOf[f] = k})]} :
       \E order \in Orders(DOMAIN family_groups) :
          /\ \A x, y \in 1..Len(order) :
                x < y => Len(family_groups[order[x]]) >= Len(family_groups[order[y]])
          /\ all_families' =
                [x \in 1..Len(order) |->
                    [name |-> order[x], fonts |-> family_groups[order[x]]]]
    /\ oPc' = "merge"
    /\ UNCHANGED <<config, reader, fsFiles, fsDirs, processed_files, font_metadata_map,
                   font_signatures, scanned, merged_families, primary_families,
                   merged_family_groups, pending_families, family_name, family_dir,
                   font_group, moveLog, skipLog, dirFailed, faults, oResult>>
    /\ UNCHANGED restOrg

\* processor.rs 223-240: first pass, from family i on
RECURSIVE FirstPass(_, _, _, _)
FirstPass(families, i, merged, primary) ==
    IF i > Len(families) THEN [merged |-> merged, primary |-> primary]
    ELSE IF families[i].name \in merged THEN FirstPass(families, i + 1, merged, primary)
    ELSE LET similar == {families[j].name : j \in
                            {j \in 1..Len(families) :
                                /\ i # j
                                /\ families[j].name \notin merged
                                /\ are_family_names_similar(families[i].name,
                                                            families[j].name)}}
         IN FirstPass(families, i + 1, merged \cup similar, Append(primary, families[i].name))

\* the fonts of every family in the sequence, concatenated
RECURSIVE ConcatFonts(_)
ConcatFonts(families) ==
    IF families = <<>> THEN <<>>
    ELSE Head(families).fonts \o ConcatFonts(Tail(families))

\* the families of the sequence whose index satisfies the test, in order
RECURSIVE SelectFamilies(_, _, _)
SelectFamilies(families, primary_name, k) ==
    IF k > Len(families) THEN <<>>
    ELSE (IF /\ families[k].name # primary_name
             /\ are_family_names_similar(primary_name, families[k].name)
          THEN <<families[k]>> ELSE <<>>)
         \o SelectFamilies(families, primary_name, k + 1)

FontsOf(families, name) ==
    families[CHOOSE k \in 1..Len(families) : families[k].name = name].fonts

\* processor.rs 243-260: the bucket of one primary family
SecondPass(families, primary_name) ==
    FontsOf(families, primary_name) \o ConcatFonts(SelectFamilies(families, primary_name, 1))

\* where the function stands after a step of the bucket loop
PcAfter(pending, group) ==
    IF group # <<>> THEN "fonts" ELSE IF pending = {} THEN "done" ELSE "families"

ResultAfter(pending, group) == IF PcAfter(pending, group) = "done" THEN "Ok" ELSE "?"

\* processor.rs 208-275: the buckets the two passes make of the sorted families
merged_groups(families) ==
    LET first == FirstPass(families, 1, {}, <<>>)
        names == {families[k].name : k \in 1..Len(families)}
        \* 263-267: families neither merged nor already a bucket
        rest  == {n \in names : n \notin first.merged /\ n \notin Range(first.primary)}
    IN [n \in Range(first.primary) \cup rest |->
           IF n \in Range(first.primary) THEN SecondPass(families, n)
           ELSE FontsOf(families, n)]

\* processor.rs 208-275
Merge ==
    /\ oPc = "merge"
    /\ \E first \in {FirstPass(all_families, 1, {}, <<>>)} :
       \E groups \in {merged_groups(all_families)} :
          /\ merged_families' = first.merged
          /\ primary_families' = first.primary
          /\ merged_family_groups' = groups
          /\ pending_families' = DOMAIN groups
    /\ oPc' = PcAfter(pending_families', <<>>)
    /\ oResult' = ResultAfter(pending_families', <<>>)
    /\ UNCHANGED <<config, reader, fsFiles, fsDirs, processed_files, font_metadata_map,
                   font_signatures, scanned, all_families, family_name, family_dir,
                   font_group, moveLog, skipLog, dirFailed, faults>>
    /\ UNCHANGED restOrg

\* processor.rs 287-308: the directory of a bucket; foundry_ok tells whether
\* ensure_directory_exists(foundry_dir) returned Ok
family_dir_of(conf, key, first_font, foundry_ok) ==
    IF conf.group_by_foundry
    THEN LET foundry_name == clean_name(first_font.foundry)
             foundry_dir  == IF foundry_name = "" THEN "Unknown_Foundry" ELSE foundry_name
         IN IF foundry_ok THEN join(foundry_dir, clean_name(key)) ELSE clean_name(key)
    ELSE clean_name(key)

\* processor.rs 278-331: the loop takes the next bucket (hash-map order) and
\* creates its directory; a directory that cannot be created skips the bucket
BeginFamily(key) ==
    /\ oPc = "families"
    /\ key \in pending_families
    /\ pending_families' = pending_families \ {key}
    /\ LET group       == merged_family_groups[key]
           first_font  == font_metadata_map[group[1]]
           foundry_dir == clean_name(first_font.foundry)
           need_foundry == config.group_by_foundry /\ ~exists(fsFiles, fsDirs, foundry_dir)
       IN \E foundry_ok \in BOOLEAN, family_ok \in BOOLEAN :
            LET dir      == family_dir_of(config, key, first_font, foundry_ok)
                dirs1    == IF config.group_by_foundry /\ foundry_ok
                            THEN ensure_directory_exists(fsDirs, foundry_dir) ELSE fsDirs
                need_dir == ~exists(fsFiles, dirs1, dir)
                failed   == (IF foundry_ok THEN 0 ELSE 1) + (IF family_ok THEN 0 ELSE 1)
            IN /\ ~foundry_ok => need_foundry      \* only create_dir_all can fail
               /\ ~family_ok => need_dir
               /\ faults + failed <= MaxFaults
               /\ faults' = faults + failed
               /\ IF family_ok
                  THEN /\ fsDirs' = (IF need_dir THEN ensure_directory_exists(dirs1, dir)
                                     ELSE dirs1)
                       /\ family_name' = key
                       /\ family_dir' = dir
                       /\ font_group' = group
                       /\ oPc' = "fonts"
                       /\ UNCHANGED <<dirFailed, oResult>>
                  ELSE /\ fsDirs' = dirs1
                       /\ dirFailed' = dirFailed \cup {key}
                       /\ oPc' = PcAfter(pending_families', <<>>)
                       /\ oResult' = ResultAfter(pending_families', <<>>)
                       /\ UNCHANGED <<family_name, family_dir, font_group>>
    /\ UNCHANGED <<config, reader, fsFiles, processed_files, font_metadata_map,
                   font_signatures, scanned, all_families, merged_families,
                   primary_families, merged_family_groups, moveLog, skipLog>>
    /\ UNCHANGED restOrg

\* a variant whose membership check never finds the path
AlreadyProcessed_never(processed, path) == FALSE

\* processor.rs 337: the membership check of the Processed-set
AlreadyProcessed(processed, path) == path \in processed

\* a variant that keeps the computed name although it is taken
target_filename_keep(files, dirs, dir, clean_base_name, ext) ==
    clean_base_name \o "." \o ext

\* processor.rs 376-388: the file name the font is moved to
target_filename(files, dirs, dir, clean_base_name, ext) ==
    LET new_filename == clean_base_name \o "." \o ext
        numbered(n)  == clean_base_name \o "_" \o Decimal(n) \o "." \o ext
        free == {n \in 1..(Cardinality(DOMAIN files) + Cardinality(dirs) + 1) :
                    ~exists(files, dirs, join(dir, numbered(n)))}
    IN IF exists(files, dirs, join(dir, new_filename))
       THEN numbered(SetMin(free))
       ELSE new_filename

\* processor.rs 334-428: one iteration of the loop over the bucket's fonts
MoveFont ==
    /\ oPc = "fonts"
    /\ LET path == Head(font_group)
           metadata == font_metadata_map[path]
       IN /\ font_group' = Tail(font_group)
          /\ oPc' = PcAfter(pending_families, font_group')
          /\ oResult' = ResultAfter(pending_families, font_group')
          /\ IF AlreadyProcessed(processed_files, path)
             THEN /\ skipLog' = Append(skipLog, path)
                  /\ UNCHANGED <<processed_files, fsFiles, moveLog, faults>>
             ELSE \E clean_base_name \in
                        {clean_name(format_font_name(metadata, config.naming_pattern))} :
                  \E ext \in {lower_extension(path)} :
                  \E dest \in {join(family_dir,
                                    target_filename(fsFiles, fsDirs, family_dir,
                                                    clean_base_name, ext))} :
                  \E sys \in {o \in SysOutcomes : Canonical(o)} :
                  \E moved \in {safe_move_file(fsFiles, path, dest, sys)} :
                           /\ faults + FaultsOf(sys) <= MaxFaults
                           /\ faults' = faults + FaultsOf(sys)
                           /\ processed_files' = processed_files \cup {path}
                           /\ fsFiles' = moved.files
                           /\ moveLog' = Append(moveLog,
                                  [src |-> path, dest |-> dest, res |-> moved.res,
                                   key |-> family_name, dir |-> family_dir,
                                   base |-> clean_base_name, ext |-> ext,
                                   taken |-> DOMAIN fsFiles \cup fsDirs])
                           /\ UNCHANGED skipLog
    /\ UNCHANGED <<config, reader, fsDirs, font_metadata_map, font_signatures, scanned,
                   all_families, merged_families, primary_families, merged_family_groups,
                   pending_families, family_name, family_dir, dirFailed>>
    /\ UNCHANGED restOrg

NextOrg ==
    \/ Setup
    \/ ReadDirFails
    \/ \E path \in FontFiles \cup fsDirs : ScanEntry(path)
    \/ Group
    \/ Merge
    \/ \E key \in pending_families : BeginFamily(key)
    \/ MoveFont

NextNorm == NormalizeOnce \/ NormalizeTwice

(***************************************************************************)
(* processor.rs: organize_fonts run twice on the same directory            *)
(***************************************************************************)
TwiceAnswers ==
    { Meta("Neo", "Regular", "Adobe", 400, FALSE),
      [Meta("", "", "", 0, FALSE) EXCEPT !.kind = "None"] }

InitTwice ==
    /\ InitOrgOn(TwiceAnswers, {{}})
    /\ rRun = 1
    /\ rFirst = <<>>

\* main.rs 116-137, processor.rs 136-151: the function is called again on dir,
\* with a new Processed-set or with the one of the first call; the Metadata
\* Store, the signature index and the groups are built anew
Rerun ==
    /\ rRun = 1
    /\ oPc = "done"
    /\ oResult = "Ok"
    /\ rRun' = 2
    /\ rFirst' = [files |-> fsFiles, dirs |-> fsDirs,
                  store |-> DOMAIN font_metadata_map, log |-> moveLog]
    /\ processed_files' \in {{}, processed_files}
    /\ font_metadata_map' = <<>>
    /\ font_signatures' = <<>>
    /\ scanned' = {}
    /\ all_families' = <<>>
    /\ merged_families' = {}
    /\ primary_families' = <<>>
    /\ merged_family_groups' = <<>>
    /\ pending_families' = {}
    /\ family_name' = ""
    /\ family_dir' = ""
    /\ font_group' = <<>>
    /\ moveLog' = <<>>
    /\ skipLog' = <<>>
    /\ dirFailed' = {}
    /\ oPc' = "setup"
    /\ oResult' = "?"
    /\ UNCHANGED <<config, reader, fsFiles, fsDirs, faults>>
    /\ UNCHANGED restRerun

NextTwice ==
    \/ Setup
    \/ ReadDirFails
    \/ \E path \in FontFiles \cup fsDirs : ScanEntry(path)
    \/ Group
    \/ Merge
    \/ \E key \in pending_families : BeginFamily(key)
    \/ MoveFont
    \/ Rerun

(***************************************************************************)
(* processor.rs: the parallel scan, statement by statement                 *)
(***************************************************************************)
\* processor.rs 153: the entries fs::read_dir(dir) hands to the workers: the
\* regular files and the duplicates folder line 144 has created
ScanWorkers == FontFiles \cup {"duplicates"}

ScanLocks == {"processed_files", "font_metadata_map", "font_signatures"}

\* the reader's answers drawn for the scan: two files can have one signature
ScanAnswers ==
    { Meta("Neo", "Regular", "Adobe", 400, FALSE),
      Meta("Neo Sans", "Regular", "Adobe", 400, FALSE),
      [Meta("", "", "", 0, FALSE) EXCEPT !.kind = "None"],
      [Meta("", "", "", 0, FALSE) EXCEPT !.kind = "Err"] }

InitScan ==
    /\ sReader \in [FontFiles -> ScanAnswers]
    /\ sProcessed \in {{}, {"c"}}
    /\ sStore = <<>>
    /\ sIndex = <<>>
    /\ sLock = [l \in ScanLocks |-> "free"]
    /\ sMeta = [w \in ScanWorkers |-> [Meta("", "", "", 0, FALSE) EXCEPT !.kind = "None"]]
    /\ sRead = {}
    /\ wPc = [w \in ScanWorkers |-> "start"]
    /\ sPc = "scan"

\* the mutex a worker at this statement waits for
LockAt(pc) ==
    CASE pc = "check" -> "processed_files"
      [] pc = "store" -> "font_metadata_map"
      [] pc = "index" -> "font_signatures"

\* a variant in which the guard of the Processed-set outlives the condition:
\* the worker goes on to read the font with the mutex held
HoldingAt_guard_kept(pc) ==
    CASE pc = "check" -> "extract"
      [] pc = "store" -> "storing"
      [] pc = "index" -> "indexing"

HoldingAt(pc) ==
    CASE pc = "check" -> "checking"
      [] pc = "store" -> "storing"
      [] pc = "index" -> "indexing"

\* processor.rs 159: !path.is_file() is evaluated before the lock is taken
ScanIsFile(w) ==
    /\ sPc = "scan"
    /\ wPc[w] = "start"
    /\ wPc' = [wPc EXCEPT ![w] = IF w \in FontFiles THEN "check" ELSE "done"]
    /\ UNCHANGED <<sReader, sProcessed, sStore, sIndex, sLock, sMeta, sRead, sPc>>
    /\ UNCHANGED restScan

\* processor.rs 159, 165, 174: Mutex::lock() returns when the mutex is free
ScanLock(w) ==
    /\ sPc = "scan"
    /\ wPc[w] \in {"check", "store", "index"}
    /\ sLock[LockAt(wPc[w])] = "free"
    /\ sLock' = [sLock EXCEPT ![LockAt(wPc[w])] = w]
    /\ wPc' = [wPc EXCEPT ![w] = HoldingAt(wPc[w])]
    /\ UNCHANGED <<sReader, sProcessed, sStore, sIndex, sMeta, sRead, sPc>>
    /\ UNCHANGED restScan

\* processor.rs 159-161: contains(&path); the guard is dropped with the condition
ScanContains(w) ==
    /\ sPc = "scan"
    /\ wPc[w] = "checking"
    /\ sLock' = [sLock EXCEPT !["processed_files"] = "free"]
    /\ wPc' = [wPc EXCEPT ![w] = IF w \in sProcessed THEN "done" ELSE "extract"]
    /\ UNCHANGED <<sReader, sProcessed, sStore, sIndex, sMeta, sRead, sPc>>
    /\ UNCHANGED restScan

\* processor.rs 163: extract_font_metadata(&path, config)
ScanExtract(w) ==
    /\ sPc = "scan"
    /\ wPc[w] = "extract"
    /\ sRead' = sRead \cup {w}
    /\ sMeta' = [sMeta EXCEPT ![w] = sReader[w]]
    /\ wPc' = [wPc EXCEPT ![w] = IF sReader[w].kind = "Some" THEN "store" ELSE "done"]
    /\ UNCHANGED <<sReader, sProcessed, sStore, sIndex, sLock, sPc>>
    /\ UNCHANGED restScan

\* HashMap::insert
map_insert(map, key, value) ==
    [k \in DOMAIN map \cup {key} |-> IF k = key THEN value ELSE map[k]]

\* a variant that replaces the list of the signature by the new path
index_push_replacing(index, signature, path) ==
    map_insert(index, signature, <<path>>)

\* processor.rs 174-177: entry(signature).or_insert_with(Vec::new).push(path)
index_push(index, signature, path) ==
    map_insert(index, signature,
               Append(IF signature \in DOMAIN index THEN index[signature] ELSE <<>>, path))

\* processor.rs 165: font_metadata_map.lock().unwrap().insert(path, metadata)
ScanStore(w) ==
    /\ sPc = "scan"
    /\ wPc[w] = "storing"
    /\ sStore' = map_insert(sStore, w, sMeta[w])
    /\ sLock' = [sLock EXCEPT !["font_metadata_map"] = "free"]
    /\ wPc' = [wPc EXCEPT ![w] = "index"]
    /\ UNCHANGED <<sReader, sProcessed, sIndex, sMeta, sRead, sPc>>
    /\ UNCHANGED restScan

\* processor.rs 168-177: the signature and the push into the signature index
ScanIndex(w) ==
    /\ sPc = "scan"
    /\ wPc[w] = "indexing"
    /\ sIndex' = index_push(sIndex, signature_of(sMeta[w]), w)
    /\ sLock' = [sLock EXCEPT !["font_signatures"] = "free"]
    /\ wPc' = [wPc EXCEPT ![w] = "done"]
    /\ UNCHANGED <<sReader, sProcessed, sStore, sMeta, sRead, sPc>>
    /\ UNCHANGED restScan

\* processor.rs 181: for_each returns when every entry has been handled
ScanJoin ==
    /\ sPc = "scan"
    /\ \A w \in ScanWorkers : wPc[w] = "done"
    /\ sPc' = "done"
    /\ UNCHANGED <<sReader, sProcessed, sStore, sIndex, sLock, sMeta, sRead, wPc>>
    /\ UNCHANGED restScan

NextScan ==
    \/ \E w \in ScanWorkers : ScanIsFile(w)
    \/ \E w \in ScanWorkers : ScanLock(w)
    \/ \E w \in ScanWorkers : ScanContains(w)
    \/ \E w \in ScanWorkers : ScanExtract(w)
    \/ \E w \in ScanWorkers : ScanStore(w)
    \/ \E w \in ScanWorkers : ScanIndex(w)
    \/ ScanJoin

(***************************************************************************)
(* processor.rs: two move loops that share one Processed-set               *)
(***************************************************************************)
Movers == {"m1", "m2"}

MoverPaths == {"a.ttf", "b.TTF"}

\* the font_group of a mover: paths of the Metadata Store, each at most once
MoverGroups ==
    {<<>>} \cup {<<x>> : x \in MoverPaths}
    \cup ({<<x, y>> : x, y \in MoverPaths} \ {<<x, x>> : x \in MoverPaths})

InitMovers ==
    /\ pSet \in SUBSET {"b.TTF"}
    /\ pHolder = "free"
    /\ pGroup \in [Movers -> MoverGroups]
    /\ pPath = [t \in Movers |-> ""]
    /\ pMoves = <<>>
    /\ pSkips = {}
    /\ pPc = [t \in Movers |-> "loop"]

\* a variant in which lock() never waits
lock_granted_always(holder) == TRUE

\* Mutex::lock() returns only when no other thread holds the guard
lock_granted(holder) == holder = "free"

\* processor.rs 334-335: the next font of the group; processed_files.lock()
\* binds the guard to processed_set, which lives to the end of the iteration
MoverLock(t) ==
    /\ pPc[t] = "loop"
    /\ IF pGroup[t] = <<>>
       THEN /\ pPc' = [pPc EXCEPT ![t] = "done"]
            /\ UNCHANGED <<pHolder, pGroup, pPath>>
       ELSE /\ lock_granted(pHolder)
            /\ pHolder' = t
            /\ pPath' = [pPath EXCEPT ![t] = Head(pGroup[t])]
            /\ pGroup' = [pGroup EXCEPT ![t] = Tail(pGroup[t])]
            /\ pPc' = [pPc EXCEPT ![t] = "locked"]
    /\ UNCHANGED <<pSet, pMoves, pSkips>>
    /\ UNCHANGED restMovers

\* processor.rs 337-339: contains(&path); `continue` drops the guard
MoverCheck(t) ==
    /\ pPc[t] = "locked"
    /\ IF pPath[t] \in pSet
       THEN /\ pSkips' = pSkips \cup {<<t, pPath[t]>>}
            /\ pHolder' = IF pHolder = t THEN "free" ELSE pHolder
            /\ pPc' = [pPc EXCEPT ![t] = "loop"]
       ELSE /\ pPc' = [pPc EXCEPT ![t] = "insert"]
            /\ UNCHANGED <<pSkips, pHolder>>
    /\ UNCHANGED <<pSet, pGroup, pPath, pMoves>>
    /\ UNCHANGED restMovers

\* processor.rs 341: processed_set.insert(path.clone())
MoverInsert(t) ==
    /\ pPc[t] = "insert"
    /\ pSet' = pSet \cup {pPath[t]}
    /\ pPc' = [pPc EXCEPT ![t] = "move"]
    /\ UNCHANGED <<pHolder, pGroup, pPath, pMoves, pSkips>>
    /\ UNCHANGED restMovers

\* processor.rs 343-431: the safe_move_file call; the guard is dropped when the
\* iteration ends
MoverMove(t) ==
    /\ pPc[t] = "move"
    /\ pMoves' = Append(pMoves, <<t, pPath[t]>>)
    /\ pHolder' = IF pHolder = t THEN "free" ELSE pHolder
    /\ pPc' = [pPc EXCEPT ![t] = "loop"]
    /\ UNCHANGED <<pSet, pGroup, pPath, pSkips>>
    /\ UNCHANGED restMovers

NextMovers ==
    \/ \E t \in Movers : MoverLock(t)
    \/ \E t \in Movers : MoverCheck(t)
    \/ \E t \in Movers : MoverInsert(t)
    \/ \E t \in Movers : MoverMove(t)

(***************************************************************************)
(* processor.rs: the merge of similar families, on drawn groups            *)
(***************************************************************************)
\* the family names of the fonts the groups are made of
MergeNames == {"Neo", "Neo Sans", "Neo Tech", "Meo", "A/B/C", "A:B:C"}

\* processor.rs 193-196: the keys of family_groups
MergeKeys == {family_key(Meta(n, "Regular", "", 400, FALSE)) : n \in MergeNames}

\* the fonts of a drawn group
GroupFonts(key, size) == [i \in 1..size |-> key \o "-" \o Decimal(i) \o ".ttf"]

\* processor.rs 209-215: all_families, collected in the hash map's order and
\* sorted by descending size with a stable sort
InitMerge ==
    /\ \E keys \in {k \in SUBSET MergeKeys : k # {} /\ Cardinality(k) <= MaxGroups} :
       \E size \in [keys -> 1..MaxGroupSize] :
       \E order \in Orders(keys) :
          /\ \A x, y \in 1..Len(order) : x < y => size[order[x]] >= size[order[y]]
          /\ qFamilies = [x \in 1..Len(order) |->
                             [name |-> order[x], fonts |-> GroupFonts(order[x], size[order[x]])]]
    /\ qFirst = <<>>
    /\ qBuckets = <<>>
    /\ qPc = "sorted"

\* processor.rs 217-268: the two passes
MergeFamilies ==
    /\ qPc = "sorted"
    /\ qFirst' = FirstPass(qFamilies, 1, {}, <<>>)
    /\ qBuckets' = merged_groups(qFamilies)
    /\ qPc' = "merged"
    /\ UNCHANGED qFamilies
    /\ UNCHANGED restMerge

NextMerge == MergeFamilies

(***************************************************************************)
(* Harness for are_family_names_similar: two names are drawn and compared  *)
(* in both orders.                                                         *)
(***************************************************************************)
\* the strings of 0..n characters over "a", "b"
RECURSIVE SimStrings(_)
SimStrings(n) ==
    IF n = 0 THEN {""}
    ELSE SimStrings(n - 1) \cup {str \o c : str \in SimStrings(n - 1), c \in {"a", "b"}}

\* names with capitals, underscores, blanks, several words, ten characters
SimNames ==
    SimStrings(MaxSimLen) \cup
    {"A", "Ab", "_a", " b", "a_b", "a b", "b_a ", "abcd x", "Abcd_y", "abc x", "abc y",
     "abcdefghij", "abxdefghiy", "abxyefghiz", "Hybrea", "Hygge"}

InitSim ==
    /\ aName1 \in SimNames
    /\ aName2 \in SimNames
    /\ aSimilar = <<>>
    /\ aPc = "call"

\* processor.rs 19-88, called as the merge calls it and with the names swapped
CompareNames ==
    /\ aPc = "call"
    /\ aSimilar' = [fwd |-> are_family_names_similar(aName1, aName2),
                    bwd |-> are_family_names_similar(aName2, aName1)]
    /\ aPc' = "done"
    /\ UNCHANGED <<aName1, aName2>>
    /\ UNCHANGED restSim

NextSim == CompareNames

(***************************************************************************)
(* main.rs: organize_fonts, the loop over the collected fonts              *)
(***************************************************************************)
\* main.rs 943-976
main_format_font_name(metadata, pattern) ==
    LET regular == to_lowercase(metadata.subfamily) = "regular"
    IN CASE pattern = "FamilySubfamily" ->
                IF regular THEN metadata.family_name
                ELSE metadata.family_name \o " (" \o metadata.subfamily \o ")"
         [] pattern = "FoundryFamilySubfamily" ->
                IF regular THEN metadata.foundry \o " " \o metadata.family_name
                ELSE metadata.foundry \o " " \o metadata.family_name
                     \o " (" \o metadata.subfamily \o ")"
         [] pattern = "FamilyWeight" ->
                metadata.family_name \o " " \o Decimal(metadata.weight)
                \o (IF metadata.is_italic THEN " Italic" ELSE "")
         [] pattern = "FoundryFamily" ->
                IF regular THEN metadata.foundry \o "_" \o metadata.family_name
                ELSE metadata.foundry \o "_" \o metadata.family_name
                     \o " (" \o metadata.subfamily \o ")"

\* main.rs 978-997
main_build_folder_path(metadata, conf) ==
    IF conf.naming_pattern = "FoundryFamily" \/ conf.group_by_foundry
    THEN join(clean_name(metadata.foundry), clean_name(metadata.family_name))
    ELSE clean_name(metadata.family_name)

\* main.rs 816-818: the loop starts on a clone of the Metadata Store
MainBegin ==
    /\ oPc = "scan"
    /\ scanned = ScanEntries
    /\ mPending' = DOMAIN font_metadata_map
    /\ oPc' = (IF mPending' = {} THEN "done" ELSE "mainloop")
    /\ oResult' = (IF mPending' = {} THEN "Ok" ELSE "?")
    /\ UNCHANGED <<config, reader, fsFiles, fsDirs, processed_files, font_metadata_map,
                   font_signatures, scanned, all_families, merged_families,
                   primary_families, merged_family_groups, pending_families, family_name,
                   family_dir, font_group, moveLog, skipLog, dirFailed, faults>>
    /\ UNCHANGED restMain

\* main.rs 820-888: one iteration of the loop, in the hash map's order
MainMoveFont(path) ==
    /\ oPc = "mainloop"
    /\ path \in mPending
    /\ mPending' = mPending \ {path}
    /\ IF path \in processed_files
       THEN /\ skipLog' = Append(skipLog, path)
            /\ oPc' = (IF mPending' = {} THEN "done" ELSE "mainloop")
            /\ oResult' = (IF mPending' = {} THEN "Ok" ELSE "?")
            /\ UNCHANGED <<processed_files, fsFiles, fsDirs, moveLog, dirFailed, faults>>
       ELSE \E metadata \in {font_metadata_map[path]} :
            \E target_dir \in {main_build_folder_path(metadata, config)} :
            \E dir_ok \in BOOLEAN :
               /\ processed_files' = processed_files \cup {path}
               /\ ~dir_ok => ~exists(fsFiles, fsDirs, target_dir)  \* only create_dir_all can fail
               /\ IF ~dir_ok
                  THEN \* ensure_directory_exists(&target_dir, config)?
                       /\ faults < MaxFaults
                       /\ faults' = faults + 1
                       /\ dirFailed' = dirFailed \cup {target_dir}
                       /\ oPc' = "done"
                       /\ oResult' = "Err"
                       /\ UNCHANGED <<fsFiles, fsDirs, moveLog>>
                  ELSE \E dirs1 \in {IF exists(fsFiles, fsDirs, target_dir) THEN fsDirs
                                     ELSE ensure_directory_exists(fsDirs, target_dir)} :
                       \E clean_base_name \in
                           {clean_name(main_format_font_name(metadata, config.naming_pattern))} :
                       \E ext \in {lower_extension(path)} :
                       \E dest \in {join(target_dir,
                                         target_filename(fsFiles, dirs1, target_dir,
                                                         clean_base_name, ext))} :
                       \E sys \in {o \in SysOutcomes : Canonical(o)} :
                       \E moved \in {safe_move_file(fsFiles, path, dest, sys)} :
                          /\ faults + FaultsOf(sys) <= MaxFaults
                          /\ faults' = faults + FaultsOf(sys)
                          /\ fsDirs' = dirs1
                          /\ fsFiles' = moved.files
                          /\ moveLog' = Append(moveLog,
                                 [src |-> path, dest |-> dest, res |-> moved.res,
                                  key |-> metadata.family_name, dir |-> target_dir,
                                  base |-> clean_base_name, ext |-> ext,
                                  taken |-> DOMAIN fsFiles \cup dirs1])
                          /\ oPc' = (IF mPending' = {} THEN "done" ELSE "mainloop")
                          /\ oResult' = (IF mPending' = {} THEN "Ok" ELSE "?")
                          /\ UNCHANGED dirFailed
            /\ UNCHANGED skipLog
    /\ UNCHANGED <<config, reader, font_metadata_map, font_signatures, scanned,
                   all_families, merged_families, primary_families, merged_family_groups,
                   pending_families, family_name, family_dir, font_group>>
    /\ UNCHANGED restMain

NextMain ==
    \/ Setup
    \/ ReadDirFails
    \/ \E path \in FontFiles \cup fsDirs : ScanEntry(path)
    \/ MainBegin
    \/ \E path \in FontFiles : MainMoveFont(path)

(***************************************************************************)
(* organizer/batch.rs, main.rs: batch_process                              *)
(***************************************************************************)
\* a listed directory: whether the path is a directory, whether its
\* duplicates folder can be created and whether it can be read
BatchDir(is_dir, duplicates_ok, readable) ==
    [is_dir |-> is_dir, duplicates_ok |-> duplicates_ok, readable |-> readable]

BatchDirs ==
    { BatchDir(FALSE, TRUE, TRUE), BatchDir(TRUE, TRUE, TRUE),
      BatchDir(TRUE, FALSE, TRUE), BatchDir(TRUE, TRUE, FALSE) }

\* what organize_fonts returns for a directory: its two ? operators before
\* the scan hand the error to the caller, everything later is logged
organize_fonts_result(dir) ==
    IF ~dir.duplicates_ok THEN "Err"
    ELSE IF ~dir.readable THEN "Err"
    ELSE "Ok"

InitBatch ==
    /\ \E n \in 0..MaxBatchDirs : bDirs \in [1..n -> BatchDirs]
    /\ bI = 1
    /\ bOrganized = {}
    /\ bGrouped = {}
    /\ bCause = ""
    /\ bResult = "?"
    /\ bPc = "loop"

\* batch.rs 22-27: a listed path that is not a directory is skipped
BatchSkip ==
    /\ bPc = "loop"
    /\ bI <= Len(bDirs)
    /\ ~bDirs[bI].is_dir
    /\ bI' = bI + 1
    /\ UNCHANGED <<bDirs, bOrganized, bGrouped, bCause, bResult, bPc>>
    /\ UNCHANGED restBatch

\* batch.rs 29-42: organize_fonts(...)?
BatchOrganize ==
    /\ bPc = "loop"
    /\ bI <= Len(bDirs)
    /\ bDirs[bI].is_dir
    /\ IF organize_fonts_result(bDirs[bI]) = "Ok"
       THEN /\ bOrganized' = bOrganized \cup {bI}
            /\ bPc' = "prompt"
            /\ UNCHANGED <<bCause, bResult>>
       ELSE /\ bCause' = "organize"
            /\ bResult' = "Err"
            /\ bPc' = "done"
            /\ UNCHANGED bOrganized
    /\ UNCHANGED <<bDirs, bI, bGrouped>>
    /\ UNCHANGED restBatch

\* batch.rs 44-65: the prompt and the optional group_by_foundry(...)?
BatchPrompt ==
    /\ bPc = "prompt"
    /\ \E input \in {"y", "n", "io error"}, grouped \in {"Ok", "Err"} :
          /\ input # "y" => grouped = "Ok"
          /\ IF input = "io error"
             THEN /\ bCause' = "io" /\ bResult' = "Err" /\ bPc' = "done"
                  /\ UNCHANGED <<bI, bGrouped>>
             ELSE IF input = "y" /\ grouped = "Err"
             THEN /\ bCause' = "group" /\ bResult' = "Err" /\ bPc' = "done"
                  /\ UNCHANGED <<bI, bGrouped>>
             ELSE /\ bGrouped' = (IF input = "y" THEN bGrouped \cup {bI} ELSE bGrouped)
                  /\ bI' = bI + 1
                  /\ bPc' = "loop"
                  /\ UNCHANGED <<bCause, bResult>>
    /\ UNCHANGED <<bDirs, bOrganized>>
    /\ UNCHANGED restBatch

\* batch.rs 68-69: the list is exhausted
BatchFinish ==
    /\ bPc = "loop"
    /\ bI > Len(bDirs)
    /\ bResult' = "Ok"
    /\ bPc' = "done"
    /\ UNCHANGED <<bDirs, bI, bOrganized, bGrouped, bCause>>
    /\ UNCHANGED restBatch

NextBatch == BatchSkip \/ BatchOrganize \/ BatchPrompt \/ BatchFinish

(***************************************************************************)
(* Harness for safe_move_file: one call on a drawn file system             *)
(***************************************************************************)
FilePaths == {"a.ttf", "b.ttf", "Fam/a.ttf", "Fam/a_1.ttf"}

InitFile ==
    /\ \E present \in SUBSET FilePaths : xFiles = [f \in present |-> f]
    /\ xBefore = xFiles
    /\ xSrc \in FilePaths
    /\ xDest \in FilePaths \ {xSrc}     \* every caller passes a destination other than the source
    /\ xRes = "?"
    /\ xCalls = <<>>
    /\ xPc = "call"

CallMoveFile ==
    /\ xPc = "call"
    /\ \E sys \in {o \in SysOutcomes : Canonical(o)} :
       \E moved \in {safe_move_file(xFiles, xSrc, xDest, sys)} :
          /\ xFiles' = moved.files
          /\ xRes' = moved.res
          /\ xCalls' = moved.calls
    /\ xPc' = "done"
    /\ UNCHANGED <<xBefore, xSrc, xDest>>
    /\ UNCHANGED restFile

NextFile == CallMoveFile

(***************************************************************************)
(* utils/file.rs: safe_move_directory, merge_directories                   *)
(***************************************************************************)
\* Path::parent of a relative path ("" for a top-level entry)
parent(path) ==
    LET slashes == {i \in 0..(Len(path) - 1) : CharAt(path, i) = "/"}
    IN IF slashes = {} THEN "" ELSE Slice(path, 0, SetMax(slashes))

\* Path::file_name
file_name(path) ==
    LET slashes == {i \in 0..(Len(path) - 1) : CharAt(path, i) = "/"}
    IN IF slashes = {} THEN path ELSE Slice(path, SetMax(slashes) + 1, Len(path))

\* Path::file_stem of a file name
file_stem(name) ==
    LET dots == {i \in 1..(Len(name) - 1) : CharAt(name, i) = "."}
    IN IF dots = {} THEN name ELSE Slice(name, 0, SetMax(dots))

\* path lies below dir
Under(path, dir) == starts_with(path, dir \o "/")

\* fs::read_dir: the entries of a directory
Children(files, dirs, dir) == {q \in DOMAIN files \cup dirs : parent(q) = dir}

\* fs::rename of a directory can succeed: the source is a directory, the
\* destination is absent or an empty directory, is not inside the source and
\* its parent exists
RenameDirPossible(files, dirs, src, dest) ==
    /\ src \in dirs
    /\ dest # src
    /\ ~Under(dest, src)
    /\ dest \notin DOMAIN files
    /\ Children(files, dirs, dest) = {}
    /\ parent(dest) = "" \/ parent(dest) \in dirs

Rebase(path, src, dest) ==
    IF path = src \/ Under(path, src) THEN dest \o Slice(path, Len(src), Len(path)) ELSE path

RenameDirFiles(files, src, dest) ==
    [q \in {Rebase(f, src, dest) : f \in DOMAIN files} |->
        files[CHOOSE f \in DOMAIN files : Rebase(f, src, dest) = q]]

RenameDirDirs(dirs, src, dest) == {Rebase(d, src, dest) : d \in dirs}

\* fs::remove_dir_all
RemoveAllFiles(files, dir) == [f \in {g \in DOMAIN files : ~Under(g, dir)} |-> files[f]]

RemoveAllDirs(dirs, dir) == {d \in dirs : d # dir /\ ~Under(d, dir)}

\* a variant that keeps the clashing name
unique_path_clashing(files, dirs, dest_dir, path) == join(dest_dir, file_name(path))

\* file.rs 96-106: the free name a clashing file is moved to
unique_path(files, dirs, dest_dir, path) ==
    LET stem == file_stem(file_name(path))
        ext  == extension(file_name(path))
        candidate(n) == join(dest_dir, stem \o "_" \o Decimal(n) \o "." \o ext)
        free == {n \in 1..(Cardinality(DOMAIN files) + Cardinality(dirs) + 1) :
                    ~exists(files, dirs, candidate(n))}
    IN candidate(SetMin(free))

Frame(src, dest, todo) == [src |-> src, dest |-> dest, todo |-> todo]

\* the number of components of a path
Depth(path) == Cardinality({i \in 0..(Len(path) - 1) : CharAt(path, i) = "/"}) + 1

\* create_dir_all refuses a path the system finds too long: the deepest path
\* it accepts has this many components
MaxDepth == 5

\* the directory trees the calls are made on
SourceFiles == {"Fam/a.ttf", "Fam/a_1.ttf", "Fam/sub/b.otf"}
DestFiles == {"Fnd/Fam/a.ttf", "Fnd/Fam/sub/b.otf"}

DirsOf(paths) == UNION {Ancestors(parent(q)) : q \in paths}

InitDir ==
    /\ dSrc = "Fam"
    /\ dDest = "Fnd/Fam"
    /\ \E src \in SUBSET SourceFiles, dst \in SUBSET DestFiles, extra \in SUBSET {"Fnd", "Fnd/Fam"} :
          /\ dFiles = [f \in src \cup dst |-> f]
          /\ dDirs = {"Fam"} \cup DirsOf(src \cup dst) \cup UNION {Ancestors(d) : d \in extra}
    /\ dStack = <<>>
    /\ dResults = <<>>
    /\ dStart = <<>>
    /\ dKept = {}
    /\ dFaults = 0
    /\ dPc = "ready"

\* file.rs 51-66: safe_move_directory up to the first entry of the merge
StartMove ==
    /\ dPc = "ready"
    /\ Len(dResults) < MaxCalls
    /\ dStart' = Append(dStart, [files |-> dFiles, dirs |-> dDirs])
    /\ UNCHANGED dKept
    /\ \E rename_ok \in BOOLEAN, ensure_ok \in BOOLEAN, read_ok \in BOOLEAN :
       LET can_rename == RenameDirPossible(dFiles, dDirs, dSrc, dDest)
           must_create == ~exists(dFiles, dDirs, dDest)
           dirs1 == IF must_create THEN ensure_directory_exists(dDirs, dDest) ELSE dDirs
           can_read == dSrc \in dirs1
           injected == (IF ~rename_ok /\ can_rename THEN 1 ELSE 0)
                       + (IF ~rename_ok /\ ~ensure_ok THEN 1 ELSE 0)
                       + (IF ~rename_ok /\ ensure_ok /\ ~read_ok /\ can_read THEN 1 ELSE 0)
       IN /\ rename_ok => (can_rename /\ ensure_ok /\ read_ok)
          /\ ~ensure_ok => (must_create /\ read_ok)   \* only create_dir_all can fail
          /\ (~rename_ok /\ ensure_ok /\ read_ok) => can_read
          /\ dFaults + injected <= MaxDirFaults
          /\ dFaults' = dFaults + injected
          /\ IF rename_ok
             THEN \* fs::rename succeeded
                  /\ dFiles' = RenameDirFiles(dFiles, dSrc, dDest)
                  /\ dDirs' = RenameDirDirs(dDirs, dSrc, dDest)
                  /\ dResults' = Append(dResults, "Ok")
                  /\ UNCHANGED <<dStack, dPc>>
             ELSE IF ~ensure_ok
             THEN \* ensure_directory_exists(dest_dir)?
                  /\ dResults' = Append(dResults, "Err")
                  /\ UNCHANGED <<dFiles, dDirs, dStack, dPc>>
             ELSE IF ~read_ok
             THEN \* merge_directories: fs::read_dir(src_dir)?
                  /\ dDirs' = dirs1
                  /\ dResults' = Append(dResults, "Err")
                  /\ UNCHANGED <<dFiles, dStack, dPc>>
             ELSE /\ dDirs' = dirs1
                  /\ dStack' = <<Frame(dSrc, dDest, Children(dFiles, dirs1, dSrc))>>
                  /\ dPc' = "merging"
                  /\ UNCHANGED <<dFiles, dResults>>
    /\ UNCHANGED <<dSrc, dDest>>
    /\ UNCHANGED restDir

\* file.rs 88-122: merge_directories moves one file entry
MergeFile ==
    /\ dPc = "merging"
    /\ \E path \in Head(dStack).todo :
          /\ path \in DOMAIN dFiles
          /\ \E dest_path \in {join(Head(dStack).dest, file_name(path))} :
             \E target \in {IF exists(dFiles, dDirs, dest_path)
                            THEN unique_path(dFiles, dDirs, Head(dStack).dest, path)
                            ELSE dest_path} :
             \E sys \in {o \in SysOutcomes : Canonical(o)} :
             \E moved \in {safe_move_file(dFiles, path, target, sys)} :
                /\ dFaults + FaultsOf(sys) <= MaxDirFaults
                /\ dFaults' = dFaults + FaultsOf(sys)
                /\ dFiles' = moved.files        \* an error is logged, nothing more
          /\ dStack' = <<[Head(dStack) EXCEPT !.todo = @ \ {path}]>> \o Tail(dStack)
    /\ UNCHANGED <<dDirs, dSrc, dDest, dResults, dStart, dKept, dPc>>
    /\ UNCHANGED restDir

\* file.rs 123-128: merge_directories enters a subdirectory
MergeSubdir ==
    /\ dPc = "merging"
    /\ \E path \in Head(dStack).todo :
          /\ path \in dDirs
          /\ \E dest_path \in {join(Head(dStack).dest, file_name(path))} :
             \E ensure_ok \in BOOLEAN, read_ok \in BOOLEAN :
             LET must_create == ~exists(dFiles, dDirs, dest_path)
                 dirs1 == IF must_create THEN ensure_directory_exists(dDirs, dest_path)
                          ELSE dDirs
                 too_long == must_create /\ Depth(dest_path) > MaxDepth
                 injected == IF (ensure_ok /\ read_ok) \/ too_long THEN 0 ELSE 1
             IN /\ ~ensure_ok => (must_create /\ read_ok)
                /\ too_long => ~ensure_ok
                /\ dFaults + injected <= MaxDirFaults
                /\ dFaults' = dFaults + injected
                /\ IF ensure_ok /\ read_ok
                   THEN /\ dDirs' = dirs1
                        /\ dStack' = <<Frame(path, dest_path, Children(dFiles, dirs1, path)),
                                       [Head(dStack) EXCEPT !.todo = @ \ {path}]>>
                                     \o Tail(dStack)
                        /\ UNCHANGED <<dResults, dPc>>
                   ELSE \* the ? operators hand the error up to safe_move_directory
                        /\ dDirs' = (IF ensure_ok THEN dirs1 ELSE dDirs)
                        /\ dStack' = <<>>
                        /\ dResults' = Append(dResults, "Err")
                        /\ dPc' = "ready"
    /\ UNCHANGED <<dFiles, dSrc, dDest, dStart, dKept>>
    /\ UNCHANGED restDir

\* file.rs 130-140 and 68-80: a merge_directories call returns; the caller
\* removes the emptied subdirectory, or, back in safe_move_directory, the
\* source directory as a whole
MergeReturn ==
    /\ dPc = "merging"
    /\ Head(dStack).todo = {}
    /\ \E removed \in BOOLEAN :
          IF Len(dStack) > 1
          THEN \* fs::remove_dir(&path): only an empty directory can go
               /\ removed => Children(dFiles, dDirs, Head(dStack).src) = {}
               /\ dDirs' = (IF removed THEN dDirs \ {Head(dStack).src} ELSE dDirs)
               /\ dKept' = (IF removed THEN dKept ELSE dKept \cup {Head(dStack).src})
               /\ dStack' = Tail(dStack)
               /\ UNCHANGED <<dFiles, dResults, dPc>>
          ELSE \* fs::remove_dir_all(src_dir): Ok or a warning, success either way
               /\ dFiles' = (IF removed THEN RemoveAllFiles(dFiles, dSrc) ELSE dFiles)
               /\ dDirs' = (IF removed THEN RemoveAllDirs(dDirs, dSrc) ELSE dDirs)
               /\ dStack' = <<>>
               /\ dResults' = Append(dResults, "Ok")
               /\ dPc' = "ready"
               /\ UNCHANGED dKept
    /\ UNCHANGED <<dSrc, dDest, dStart, dFaults>>
    /\ UNCHANGED restDir

NextDir == StartMove \/ MergeFile \/ MergeSubdir \/ MergeReturn

(***************************************************************************)
(* organizer/group.rs: group_by_foundry                                    *)
(***************************************************************************)
\* the entries of dir that are directories
TopLevelDirs(dirs) == {d \in dirs : parent(d) = ""}

\* group.rs 39-50: the files directly in a family folder the reader gives
\* metadata for
FontsWithMetadata(files, folder) ==
    {f \in DOMAIN files : parent(f) = folder /\ gReader[f] # "None"}

\* group.rs 27-54: the folders that get an entry in family_to_foundry
FamiliesWithFoundry(files, dirs) ==
    {d \in TopLevelDirs(dirs) \ {"duplicates"} : FontsWithMetadata(files, d) # {}}

\* the trees group_by_foundry is called on: family folders Neo and Adobe, a
\* foundry folder Type left by an earlier run. A folder named like the
\* foundry of its own font is not drawn here.
GroupFiles == {"Neo/n.ttf", "Neo/sub/x.otf", "Adobe/a.ttf", "Type/Neo/n.ttf"}

GroupReaders ==
    { r \in [GroupFiles -> {"None", "Adobe", "Type"}] :
         /\ r["Neo/sub/x.otf"] = "None"
         /\ r["Type/Neo/n.ttf"] = "Type"
         /\ r["Adobe/a.ttf"] # "Adobe" }

InitGroupOn(readers, files) ==
    /\ gReader \in readers
    /\ \E present \in SUBSET files :
          /\ dFiles = [f \in present |-> f]
          /\ dDirs = {"duplicates"} \cup DirsOf(present)
    /\ gStart = [files |-> dFiles, dirs |-> dDirs]
    /\ family_to_foundry = <<>>
    /\ gPending = {}
    /\ gFamily = ""
    /\ family_folders = <<>>
    /\ foundry_folders = <<>>
    /\ gResult = "?"
    /\ gPc = "scan"
    /\ dStack = <<>>
    /\ dSrc = ""
    /\ dDest = ""
    /\ dResults = <<>>
    /\ dStart = <<>>
    /\ dKept = {}
    /\ dFaults = 0
    /\ dPc = "idle"

InitGroup == InitGroupOn(GroupReaders, GroupFiles)

\* the trees with a family folder named like the foundry of its own font:
\* folder Type holds a font of foundry Type, and may hold a subfolder and a
\* folder Type an earlier run left
NestedFiles == {"Type/t.ttf", "Type/sub/x.otf", "Type/Type/t.ttf"}

NestedReaders ==
    { r \in [NestedFiles -> {"None", "Type"}] :
         /\ r["Type/t.ttf"] = "Type"
         /\ r["Type/Type/t.ttf"] = "Type" }

InitNested == InitGroupOn(NestedReaders, NestedFiles)

\* group.rs 27-54: the scan; the first file of a folder the reader gives
\* metadata for, in the order read_dir lists them, names the foundry
GroupScan ==
    /\ gPc = "scan"
    /\ \/ \* fs::read_dir(dir)?
          /\ dFaults < MaxDirFaults
          /\ dFaults' = dFaults + 1
          /\ gResult' = "Err"
          /\ gPc' = "done"
          /\ UNCHANGED <<family_to_foundry, gPending>>
       \/ \E families \in {FamiliesWithFoundry(dFiles, dDirs)} :
          \E sample \in [families -> DOMAIN dFiles] :
             /\ \A d \in families : sample[d] \in FontsWithMetadata(dFiles, d)
             /\ family_to_foundry' = [d \in families |-> clean_name(gReader[sample[d]])]
             /\ gPending' = families
             /\ gPc' = (IF families = {} THEN "done" ELSE "loop")
             /\ gResult' = (IF families = {} THEN "Ok" ELSE "?")
             /\ UNCHANGED dFaults
    /\ UNCHANGED <<gReader, gFamily, family_folders, foundry_folders, gStart>>
    /\ UNCHANGED <<dFiles, dDirs, dStack, dSrc, dDest, dResults, dStart, dKept, dPc>>
    /\ UNCHANGED restGroup

\* group.rs 57-65: the loop takes the next family, in the hash map's order,
\* and makes sure its foundry directory exists
GroupBegin(family) ==
    /\ gPc = "loop"
    /\ family \in gPending
    /\ gPending' = gPending \ {family}
    /\ \E foundry \in {family_to_foundry[family]} :
       \E ensure_ok \in BOOLEAN :
          /\ ~ensure_ok => ~exists(dFiles, dDirs, foundry)   \* only create_dir_all can fail
          /\ IF ensure_ok
             THEN /\ dDirs' = (IF exists(dFiles, dDirs, foundry) THEN dDirs
                               ELSE ensure_directory_exists(dDirs, foundry))
                  /\ gFamily' = family
                  /\ dSrc' = family
                  /\ dDest' = join(foundry, family)
                  /\ dResults' = <<>>
                  /\ dStart' = <<>>
                  /\ dKept' = {}
                  /\ dPc' = "ready"
                  /\ gPc' = "moving"
                  /\ UNCHANGED <<dFaults, gResult>>
             ELSE \* ensure_directory_exists(&foundry_dir, config)?
                  /\ dFaults < MaxDirFaults
                  /\ dFaults' = dFaults + 1
                  /\ gResult' = "Err"
                  /\ gPc' = "done"
                  /\ UNCHANGED <<dDirs, gFamily, dSrc, dDest, dResults, dStart, dKept, dPc>>
    /\ UNCHANGED <<gReader, family_to_foundry, family_folders, foundry_folders, gStart>>
    /\ UNCHANGED <<dFiles, dStack>>
    /\ UNCHANGED restGroup

\* group.rs 67-88: safe_move_directory(&family_dir, &target_dir, config) is called
GroupMove ==
    /\ gPc = "moving"
    /\ dResults = <<>>
    /\ StartMove

\* group.rs 76, 87, 90-96: the call has returned; ? hands an error up,
\* otherwise the tracking maps are updated and the loop goes on
GroupAfterMove ==
    /\ gPc = "moving"
    /\ dPc = "ready"
    /\ Len(dResults) = 1
    /\ IF dResults[1] = "Err"
       THEN /\ gResult' = "Err"
            /\ gPc' = "done"
            /\ UNCHANGED <<family_folders, foundry_folders>>
       ELSE /\ family_folders' =
                  [f \in DOMAIN family_folders \cup {gFamily} |->
                      IF f = gFamily THEN dDest ELSE family_folders[f]]
            /\ foundry_folders' =
                  [f \in DOMAIN foundry_folders \cup {family_to_foundry[gFamily]} |->
                      IF f \in DOMAIN foundry_folders THEN foundry_folders[f]
                      ELSE family_to_foundry[gFamily]]
            /\ gPc' = (IF gPending = {} THEN "done" ELSE "loop")
            /\ gResult' = (IF gPending = {} THEN "Ok" ELSE "?")
    /\ dPc' = "idle"
    /\ gFamily' = ""
    /\ UNCHANGED <<gReader, family_to_foundry, gPending, gStart>>
    /\ UNCHANGED <<dFiles, dDirs, dStack, dSrc, dDest, dResults, dStart, dKept, dFaults>>
    /\ UNCHANGED restGroup

NextGroup ==
    \/ GroupScan
    \/ \E family \in TopLevelDirs(gStart.dirs) : GroupBegin(family)
    \/ GroupMove
    \/ MergeFile
    \/ MergeSubdir
    \/ MergeReturn
    \/ GroupAfterMove

(***************************************************************************)
(* Harness for format_font_name and clean_name                             *)
(***************************************************************************)
\* the strings of 0..n characters over the drawn alphabet
RECURSIVE RawStrings(_)
RawStrings(n) ==
    IF n = 0 THEN {""}
    ELSE RawStrings(n - 1) \cup
         {str \o c : str \in RawStrings(n - 1), c \in {"a", " ", ".", "/"}}

FormatInputs ==
    { Meta(family, subfamily, foundry, weight, italic) :
        family \in {"Roboto", "A/B", "", " . ", "<>:\"/\\|?*"},
        subfamily \in {"Regular", "Bold?", ""},
        foundry \in {"Adobe", "U/W", ""},
        weight \in {400, 700},
        italic \in BOOLEAN }

InitName ==
    /\ kJob \in {"format", "clean"}
    /\ IF kJob = "format"
       THEN /\ kMeta \in FormatInputs
            /\ kPattern \in NamingPatterns
            /\ kRaw = ""
       ELSE /\ kMeta = Meta("", "", "", 0, FALSE)
            /\ kPattern = "FamilySubfamily"
            /\ kRaw \in RawStrings(MaxRawLen)
    /\ kOut = <<>>
    /\ kPc = "call"

\* processor.rs 344-345: clean_name(&format_font_name(metadata, pattern)),
\* and format_font_name of main.rs on the same input
FormatName ==
    /\ kPc = "call"
    /\ kJob = "format"
    /\ \E formatted \in {format_font_name(kMeta, kPattern)} :
          kOut' = [formatted |-> formatted,
                   main_formatted |-> main_format_font_name(kMeta, kPattern),
                   cleaned |-> clean_name(formatted)]
    /\ kPc' = "done"
    /\ UNCHANGED <<kJob, kMeta, kPattern, kRaw>>
    /\ UNCHANGED restName

\* clean_name on a drawn string
CleanName ==
    /\ kPc = "call"
    /\ kJob = "clean"
    /\ kOut' = [formatted |-> kRaw, main_formatted |-> kRaw, cleaned |-> clean_name(kRaw)]
    /\ kPc' = "done"
    /\ UNCHANGED <<kJob, kMeta, kPattern, kRaw>>
    /\ UNCHANGED restName

NextName == FormatName \/ CleanName

(***************************************************************************)
(* Specifications. Each one runs one part of the program; the variables of *)
(* the other parts stay at rest.                                           *)
(***************************************************************************)
IdleNorm == nName = "" /\ nOnce = "?" /\ nTwice = "?" /\ nPc = "idle"

IdleOrg ==
    /\ config = [naming_pattern |-> "FamilySubfamily", group_by_foundry |-> FALSE]
    /\ reader = <<>>
    /\ fsFiles = <<>>
    /\ fsDirs = {}
    /\ processed_files = {}
    /\ font_metadata_map = <<>>
    /\ font_signatures = <<>>
    /\ scanned = {}
    /\ all_families = <<>>
    /\ merged_families = {}
    /\ primary_families = <<>>
    /\ merged_family_groups = <<>>
    /\ pending_families = {}
    /\ family_name = ""
    /\ family_dir = ""
    /\ font_group = <<>>
    /\ moveLog = <<>>
    /\ skipLog = <<>>
    /\ dirFailed = {}
    /\ faults = 0
    /\ oPc = "idle"
    /\ oResult = "?"
    /\ mPending = {}

IdleFile ==
    /\ xFiles = <<>> /\ xBefore = <<>> /\ xSrc = "" /\ xDest = ""
    /\ xRes = "?" /\ xCalls = <<>> /\ xPc = "idle"

IdleBatch ==
    /\ bDirs = <<>> /\ bI = 1 /\ bOrganized = {} /\ bGrouped = {} /\ bCause = ""
    /\ bResult = "?" /\ bPc = "idle"

IdleGroup ==
    /\ gReader = <<>> /\ family_to_foundry = <<>> /\ gPending = {} /\ gFamily = ""
    /\ family_folders = <<>> /\ foundry_folders = <<>> /\ gStart = <<>>
    /\ gResult = "?" /\ gPc = "idle"

IdleName ==
    /\ kJob = "idle" /\ kMeta = <<>> /\ kPattern = "" /\ kRaw = "" /\ kOut = <<>>
    /\ kPc = "idle"

IdleScan ==
    /\ sReader = <<>> /\ sProcessed = {} /\ sStore = <<>> /\ sIndex = <<>>
    /\ sLock = <<>> /\ sMeta = <<>> /\ sRead = {} /\ wPc = <<>> /\ sPc = "idle"

IdleMovers ==
    /\ pSet = {} /\ pHolder = "free" /\ pGroup = <<>> /\ pPath = <<>>
    /\ pMoves = <<>> /\ pSkips = {} /\ pPc = "idle"

IdleMerge == qFamilies = <<>> /\ qFirst = <<>> /\ qBuckets = <<>> /\ qPc = "idle"

IdleSim == aName1 = "" /\ aName2 = "" /\ aSimilar = <<>> /\ aPc = "idle"

IdleRerun == rRun = 0 /\ rFirst = <<>>

IdleDir ==
    /\ dFiles = <<>> /\ dDirs = {} /\ dStack = <<>> /\ dSrc = "" /\ dDest = ""
    /\ dResults = <<>> /\ dStart = <<>> /\ dFaults = 0 /\ dKept = {} /\ dPc = "idle"

\* normalize_family_name applied to drawn names
StartNorm == InitNorm /\ IdleOrg /\ IdleFile /\ IdleDir /\ IdleBatch /\ IdleGroup /\ IdleName
    /\ IdleScan /\ IdleMovers /\ IdleMerge /\ IdleSim
    /\ IdleRerun
SpecNorm == StartNorm /\ [][NextNorm]_vars

\* one run of organize_fonts (organizer/processor.rs)
StartOrganize == InitOrg /\ IdleNorm /\ IdleFile /\ IdleDir /\ IdleBatch /\ IdleGroup /\ IdleName
    /\ IdleScan /\ IdleMovers /\ IdleMerge /\ IdleSim
    /\ IdleRerun
SpecOrganize == StartOrganize /\ [][NextOrg]_vars

\* one run of organize_fonts on fonts that may name the family "duplicates"
StartReserved == InitReserved /\ IdleNorm /\ IdleFile /\ IdleDir /\ IdleBatch /\ IdleGroup /\ IdleName
    /\ IdleScan /\ IdleMovers /\ IdleMerge /\ IdleSim
    /\ IdleRerun
SpecReserved == StartReserved /\ [][NextOrg]_vars

\* one run of organize_fonts (main.rs)
StartMain == InitOrg /\ IdleNorm /\ IdleFile /\ IdleDir /\ IdleBatch /\ IdleGroup /\ IdleName
    /\ IdleScan /\ IdleMovers /\ IdleMerge /\ IdleSim
    /\ IdleRerun
SpecMain == StartMain /\ [][NextMain]_vars

\* one call of safe_move_file
StartFile == InitFile /\ IdleNorm /\ IdleOrg /\ IdleDir /\ IdleBatch /\ IdleGroup /\ IdleName
    /\ IdleScan /\ IdleMovers /\ IdleMerge /\ IdleSim
    /\ IdleRerun
SpecFile == StartFile /\ [][NextFile]_vars

\* safe_move_directory called repeatedly with one source/destination pair
StartDir == InitDir /\ IdleNorm /\ IdleOrg /\ IdleFile /\ IdleBatch /\ IdleGroup /\ IdleName
    /\ IdleScan /\ IdleMovers /\ IdleMerge /\ IdleSim
    /\ IdleRerun
SpecDir == StartDir /\ [][NextDir]_vars

\* one run of group_by_foundry
StartGroup == InitGroup /\ IdleNorm /\ IdleOrg /\ IdleFile /\ IdleBatch /\ IdleName
    /\ IdleScan /\ IdleMovers /\ IdleMerge /\ IdleSim
    /\ IdleRerun
SpecGroup == StartGroup /\ [][NextGroup]_vars

StartNested == InitNested /\ IdleNorm /\ IdleOrg /\ IdleFile /\ IdleBatch /\ IdleName
                 /\ IdleScan /\ IdleMovers /\ IdleMerge /\ IdleSim /\ IdleRerun

SpecNested == StartNested /\ [][NextGroup]_vars

\* one call of format_font_name with clean_name, or of clean_name alone
StartName == InitName /\ IdleNorm /\ IdleOrg /\ IdleFile /\ IdleDir /\ IdleBatch /\ IdleGroup
    /\ IdleScan /\ IdleMovers /\ IdleMerge /\ IdleSim
    /\ IdleRerun
SpecName == StartName /\ [][NextName]_vars

\* one run of batch_process
StartScan == InitScan /\ IdleNorm /\ IdleOrg /\ IdleFile /\ IdleDir /\ IdleBatch /\ IdleGroup
    /\ IdleName /\ IdleMovers /\ IdleMerge /\ IdleSim
    /\ IdleRerun
SpecScan == StartScan /\ [][NextScan]_vars

\* the parallel scan with the schedule the thread pool gives: no worker that
\* can take a step is left waiting for ever
FairScan ==
    /\ StartScan
    /\ [][NextScan]_vars
    /\ \A w \in ScanWorkers :
          WF_vars(ScanIsFile(w) \/ ScanLock(w) \/ ScanContains(w) \/ ScanExtract(w)
                  \/ ScanStore(w) \/ ScanIndex(w))
    /\ WF_vars(ScanJoin)

StartMovers == InitMovers /\ IdleNorm /\ IdleOrg /\ IdleFile /\ IdleDir /\ IdleBatch /\ IdleGroup
    /\ IdleName /\ IdleScan /\ IdleMerge /\ IdleSim
    /\ IdleRerun
SpecMovers == StartMovers /\ [][NextMovers]_vars

StartMerge == InitMerge /\ IdleNorm /\ IdleOrg /\ IdleFile /\ IdleDir /\ IdleBatch /\ IdleGroup
    /\ IdleName /\ IdleScan /\ IdleMovers /\ IdleSim
    /\ IdleRerun
SpecMerge == StartMerge /\ [][NextMerge]_vars

StartSim == InitSim /\ IdleNorm /\ IdleOrg /\ IdleFile /\ IdleDir /\ IdleBatch /\ IdleGroup
    /\ IdleName /\ IdleScan /\ IdleMovers /\ IdleMerge
    /\ IdleRerun
SpecSim == StartSim /\ [][NextSim]_vars

StartTwice == InitTwice /\ IdleNorm /\ IdleFile /\ IdleDir /\ IdleBatch /\ IdleGroup /\ IdleName
    /\ IdleScan /\ IdleMovers /\ IdleMerge /\ IdleSim
SpecTwice == StartTwice /\ [][NextTwice]_vars

StartBatch == InitBatch /\ IdleNorm /\ IdleOrg /\ IdleFile /\ IdleDir /\ IdleGroup /\ IdleName
    /\ IdleScan /\ IdleMovers /\ IdleMerge /\ IdleSim
    /\ IdleRerun
SpecBatch == StartBatch /\ [][NextBatch]_vars

(***************************************************************************)
(* Properties                                                              *)
(***************************************************************************)
\* the similarity merge of this run has produced its buckets
MergeDone == oPc \in {"families", "fonts"} \/ (oPc = "done" /\ oResult = "Ok")

\* how often path occurs in a sequence of paths
Occurrences(seq, path) == Cardinality({k \in 1..Len(seq) : seq[k] = path})

\* total number of occurrences of path over all merged buckets
BucketOccurrences(path) ==
    LET keys == DOMAIN merged_family_groups
        RECURSIVE Sum(_)
        Sum(K) == IF K = {} THEN 0
                  ELSE LET k == CHOOSE x \in K : TRUE
                       IN Occurrences(merged_family_groups[k], path) + Sum(K \ {k})
    IN Sum(keys)

\* C1: after the similarity merge the buckets partition the collected fonts:
\* every initial family group lies in exactly one bucket, and every collected
\* (path, metadata) entry occurs exactly once over all buckets.
C1_MergePartition ==
    MergeDone =>
        /\ \A f \in DOMAIN font_metadata_map : BucketOccurrences(f) = 1
        /\ \A g \in 1..Len(all_families) :
              Cardinality({k \in DOMAIN merged_family_groups :
                              Range(all_families[g].fonts) \subseteq
                                  Range(merged_family_groups[k])}) = 1

MovesOf(log, path) == {i \in 1..Len(log) : log[i].src = path}

\* C2: within one run safe_move_file is called at most once per source path,
\* the Processed-set only grows, and a path that is in the Processed-set is
\* skipped by every later visit (no further move of it).
C2_AtMostOneMove ==
    /\ [](\A p \in FontFiles : Cardinality(MovesOf(moveLog, p)) <= 1)
    /\ [][/\ processed_files \subseteq processed_files'
          /\ \A p \in processed_files : MovesOf(moveLog', p) = MovesOf(moveLog, p)
          /\ (oPc = "fonts" /\ font_group' # font_group /\ Head(font_group) \in processed_files)
                => skipLog' = Append(skipLog, Head(font_group))]_vars

\* C2 witness: a path that sits in two buckets has been moved once and then
\* skipped at its second visit.
C2_Witness ==
    \E p \in FontFiles :
        /\ BucketOccurrences(p) >= 2
        /\ Cardinality(MovesOf(moveLog, p)) = 1
        /\ Occurrences(skipLog, p) >= 1

Numbered(base, n, ext) == base \o "_" \o Decimal(n) \o "." \o ext

\* the destination the collision rule prescribes for one logged move
CollisionRuleHolds(e) ==
    LET plain == join(e.dir, e.base \o "." \o e.ext)
    IN IF plain \in e.taken
       THEN \E n \in 1..(Cardinality(e.taken) + 1) :
               /\ e.dest = join(e.dir, Numbered(e.base, n, e.ext))
               /\ e.dest \notin e.taken
               /\ \A m \in 1..(n - 1) : join(e.dir, Numbered(e.base, m, e.ext)) \in e.taken
       ELSE e.dest = plain

\* C3: a font whose computed destination exists is moved to <base>_n.<ext>
\* for the smallest free n >= 1; no existing file is ever overwritten; and
\* when all moves succeed every moved font is found under its own name with
\* its own content (k colliding sources give k distinct files).
C3_CollisionRename ==
    /\ [](\A i \in 1..Len(moveLog) : CollisionRuleHolds(moveLog[i]))
    /\ [][\A f \in DOMAIN fsFiles \ FontFiles :
             f \in DOMAIN fsFiles' /\ fsFiles'[f] = fsFiles[f]]_vars
    /\ []((oPc = "done" /\ \A i \in 1..Len(moveLog) : moveLog[i].res = "Ok") =>
             /\ \A i \in 1..Len(moveLog) :
                   /\ moveLog[i].dest \in DOMAIN fsFiles
                   /\ fsFiles[moveLog[i].dest] = moveLog[i].src
             /\ \A i, j \in 1..Len(moveLog) :
                   i # j => moveLog[i].dest # moveLog[j].dest)

\* C3 witness: three sources resolved to Neo.ttf in Neo/ while Neo.ttf was
\* already there; all moves succeeded and the third went to Neo_3.ttf.
C3_Witness ==
    /\ oPc = "done"
    /\ Len(moveLog) = 3
    /\ \A i \in 1..3 : moveLog[i].res = "Ok" /\ moveLog[i].dir = "Neo" /\ moveLog[i].base = "Neo"
    /\ moveLog[3].dest = "Neo/Neo_3.ttf"
    /\ "Neo/Neo.ttf" \in DOMAIN fsFiles /\ fsFiles["Neo/Neo.ttf"] = "old"


\* the second call was made after the first had moved the source away
SecondCallAfterFullMove ==
    /\ Len(dResults) = 2
    /\ dResults[1] = "Ok"
    /\ ~exists(dStart[2].files, dStart[2].dirs, dSrc)

\* C4: a second safe_move_directory call with the same pair, made after the
\* first call has fully moved the source (the source no longer exists),
\* returns Ok and leaves the file system, the destination included, as it was.
C4_SecondCallOk ==
    SecondCallAfterFullMove =>
        /\ dResults[2] = "Ok"
        /\ dFiles = dStart[2].files
        /\ dDirs = dStart[2].dirs

BatchValid(dir) == dir.is_dir /\ organize_fonts_result(dir) = "Ok"

\* C5: when organize_fonts fails for a listed directory with a
\* directory-level error, every later valid directory of the batch list is
\* still processed. Stated for runs that no other error (the prompt, the
\* foundry grouping) has ended.
C5_BatchContinues ==
    (bPc = "done" /\ bCause \notin {"io", "group"}) =>
        \A i \in 1..Len(bDirs) :
            (/\ BatchValid(bDirs[i])
             /\ \E j \in 1..(i - 1) :
                   bDirs[j].is_dir /\ organize_fonts_result(bDirs[j]) = "Err")
            => i \in bOrganized

Attempted(path) == \E i \in 1..Len(moveLog) : moveLog[i].src = path

\* C6: once the duplicates folder exists and the directory listing was
\* opened, organize_fonts returns Ok and every collected font has been handed
\* to safe_move_file, except those whose own directory could not be created.
C6_MainSkipsFailures ==
    (oPc = "done" /\ "duplicates" \in fsDirs /\ FontFiles \subseteq scanned) =>
        /\ oResult = "Ok"
        /\ \A path \in DOMAIN font_metadata_map :
              \/ Attempted(path)
              \/ main_build_folder_path(font_metadata_map[path], config) \in dirFailed

\* the orders the hash map and the stable sort by size can leave the
\* families of this run in
FamilyOrders ==
    {[x \in 1..Len(all_families) |-> all_families[order[x]]] :
        order \in {o \in Orders(1..Len(all_families)) :
                      \A x, y \in 1..Len(all_families) :
                          x < y => Len(all_families[o[x]].fonts) >= Len(all_families[o[y]].fonts)}}

\* bucket key -> the set of fonts of the bucket
BucketSets(groups) == [k \in DOMAIN groups |-> Range(groups[k])]

\* C12: the similarity merge is deterministic: for the fonts of this run,
\* every order in which the hash map can hand over the groups (equal sizes in
\* any order) gives the same primary groups and puts every font in the same
\* bucket as this run did.
C12_MergeDeterministic ==
    MergeDone =>
        \A families \in FamilyOrders :
            BucketSets(merged_groups(families)) = BucketSets(merged_family_groups)

\* the string holds one of the characters < > : " / \ | ? *
HasInvalidChar(str) == \E i \in 1..Len(str) : SubSeq(str, i, i) \in invalid_chars

\* C13: for every naming pattern and every metadata,
\* clean_name(format_font_name(m, p)) is non-empty and holds none of the
\* characters < > : " / \ | ? *.
C13_CleanFormattedName ==
    (kPc = "done" /\ kJob = "format") =>
        /\ kOut.cleaned # ""
        /\ ~HasInvalidChar(kOut.cleaned)

\* a formatted name with illegal characters, among them the asterisk, was cleaned
C13_Witness ==
    /\ kPc = "done"
    /\ kJob = "format"
    /\ HasInvalidChar(kOut.formatted)
    /\ contains(kOut.formatted, "*")
    /\ ~HasInvalidChar(kOut.cleaned)

\* C14: for every input, clean_name returns a string without leading or
\* trailing whitespace and without a trailing dot, and "Unknown" whenever
\* nothing but spaces and dots is left of the input.
C14_CleanTrimmed ==
    (kPc = "done" /\ kJob = "clean") =>
        /\ trim(kOut.cleaned) = kOut.cleaned
        /\ ~ends_with(kOut.cleaned, ".")
        /\ (\A i \in 1..Len(kRaw) : SubSeq(kRaw, i, i) \in {" ", "."})
              => kOut.cleaned = "Unknown"

\* C15: with the pattern FamilyWeight format_font_name returns exactly
\* "{family} {weight}" for a non-italic font and "{family} {weight} Italic"
\* for an italic one, with nothing after "Italic".
C15_FamilyWeight ==
    (kPc = "done" /\ kJob = "format" /\ kPattern = "FamilyWeight") =>
        kOut.formatted =
            kMeta.family_name \o " " \o Decimal(kMeta.weight)
            \o (IF kMeta.is_italic THEN " Italic" ELSE "")

\* C16: organize_fonts creates the duplicates folder before any entry is
\* scanned or any font is moved, and no move it makes has a destination
\* inside the duplicates folder, whatever the family names are.
C16_DuplicatesReserved ==
    /\ (scanned # {} \/ moveLog # <<>>) => "duplicates" \in fsDirs
    /\ \A i \in 1..Len(moveLog) : ~starts_with(moveLog[i].dest, "duplicates/")

\* how often a path occurs in the signature index
RECURSIVE CountIn(_, _)
CountIn(seq, path) ==
    IF seq = <<>> THEN 0
    ELSE (IF Head(seq) = path THEN 1 ELSE 0) + CountIn(Tail(seq), path)

RECURSIVE SumOver(_, _, _)
SumOver(index, keys, path) ==
    IF keys = {} THEN 0
    ELSE LET k == CHOOSE x \in keys : TRUE
         IN CountIn(index[k], path) + SumOver(index, keys \ {k}, path)

IndexCount(index, path) == SumOver(index, DOMAIN index, path)

\* C18: when the parallel scan has finished, whatever the schedule was, the
\* Metadata Store holds one entry, the reader's answer, for each regular file
\* the reader returned metadata for, and no other entry; each of these
\* paths occurs once in the signature index, under its signature, and no other
\* path occurs there. The store is a function of the directory alone.
C18_ScanStore ==
    sPc = "done" =>
        LET found == {f \in FontFiles : f \notin sProcessed /\ sReader[f].kind = "Some"}
        IN /\ sRead = FontFiles \ sProcessed
           /\ DOMAIN sStore = found
           /\ \A f \in found : sStore[f] = sReader[f]
           /\ \A f \in ScanWorkers : IndexCount(sIndex, f) = (IF f \in found THEN 1 ELSE 0)
           /\ \A f \in found : CountIn(sIndex[signature_of(sReader[f])], f) = 1

\* the scan is over; two files share a signature and a third has its own
C18_Witness ==
    /\ sPc = "done"
    /\ DOMAIN sStore = FontFiles
    /\ \E g \in DOMAIN sIndex : Len(sIndex[g]) = 2 /\ sIndex[g][1] = "b.TTF"
    /\ Cardinality(DOMAIN sIndex) = 2

\* the movers that called safe_move_file for the path
MoversOf(path) == {t \in Movers : \E i \in 1..Len(pMoves) : pMoves[i] = <<t, path>>}

\* the number of safe_move_file calls made for the path
MoveCalls(path) == Cardinality({i \in 1..Len(pMoves) : pMoves[i][2] = path})

\* C19: in the move loop the membership check and the insertion into the
\* Processed-set are made under one hold of the lock: a mover between the two
\* holds the lock, and a step of another mover leaves the Processed-set and the
\* holder alone meanwhile. So no path is moved twice, and when both movers
\* have been through a path that was not in the Processed-set, one of them
\* called safe_move_file for it and the other skipped it; a mover skips only a
\* path that is in the Processed-set and goes on only with one that is not.
C19_CheckAndInsertLocked ==
    /\ [](\A t \in Movers : pPc[t] \in {"locked", "insert", "move"} => pHolder = t)
    /\ [][\A t \in Movers :
             (pPc[t] \in {"locked", "insert"} /\ pPc'[t] = pPc[t]) =>
                 (pSet' = pSet /\ pHolder' = pHolder)]_vars
    /\ [](\A path \in MoverPaths : MoveCalls(path) <= 1)
    /\ []((\A t \in Movers : pPc[t] = "done") =>
             \A path \in MoverPaths :
                LET through == {t \in Movers : <<t, path>> \in pSkips} \cup MoversOf(path)
                IN (through = Movers /\ MoveCalls(path) = 1) =>
                      /\ Cardinality(MoversOf(path)) = 1
                      /\ \A t \in Movers \ MoversOf(path) : <<t, path>> \in pSkips)
    /\ [][\A t \in Movers :
             /\ (pPc[t] = "locked" /\ pPc'[t] = "insert") => pPath[t] \notin pSet
             /\ (pPc[t] = "locked" /\ pPc'[t] = "loop") => pPath[t] \in pSet]_vars

\* both movers reached "a.ttf", which was not in the Processed-set; the second
\* waited for the lock while the first was between check and insert
C19_Witness ==
    /\ \A t \in Movers : pPc[t] = "done"
    /\ MoversOf("a.ttf") = {"m2"}
    /\ <<"m1", "a.ttf">> \in pSkips
    /\ pMoves # <<>> /\ pMoves[1] = <<"m1", "b.TTF">>

\* C20: after a safe_move_directory call, the merge fallback included, every
\* file that was under src before the call exists under dest or still under
\* src: a file move that fails inside the merge never ends in
\* the deletion of the file.
C20_MergeLosesNothing ==
    (Len(dResults) = 1 /\ dPc = "ready") =>
        \A f \in DOMAIN dStart[1].files :
            Under(f, dSrc) =>
                \E g \in DOMAIN dFiles :
                    /\ dFiles[g] = dStart[1].files[f]
                    /\ Under(g, dSrc) \/ Under(g, dDest)

\* the entry is where it was and the run has taken no notice of it
Untouched(path) ==
    /\ path \notin DOMAIN font_metadata_map
    /\ path \notin processed_files
    /\ ~Attempted(path)
    /\ path \in DOMAIN fsFiles => fsFiles[path] = path

\* C17: organize_fonts leaves alone every entry the reader gave no metadata
\* or an error for, and every subdirectory of dir: the entry never enters the
\* Metadata Store or the Processed-set, is never the source of a move and stays
\* at its path; a directory is never removed and a file inside a
\* subdirectory is never changed or removed.
C17_SkippedUntouched ==
    /\ [](\A path \in DOMAIN reader :
             reader[path].kind # "Some" => (path \in DOMAIN fsFiles /\ Untouched(path)))
    /\ [](\A d \in fsDirs : Untouched(d))
    /\ [][/\ fsDirs \subseteq fsDirs'
          /\ \A f \in DOMAIN fsFiles :
                contains(f, "/") => (f \in DOMAIN fsFiles' /\ fsFiles'[f] = fsFiles[f])]_vars

\* the run is over, fonts were moved, and a file without metadata, a file
\* the reader failed on and the folder of an earlier run are still there
C17_Witness ==
    /\ oPc = "done"
    /\ oResult = "Ok"
    /\ \E i \in 1..Len(moveLog) : moveLog[i].res = "Ok"
    /\ \E path \in DOMAIN reader : reader[path].kind = "None" /\ path \in scanned
    /\ \E path \in DOMAIN reader : reader[path].kind = "Err" /\ path \in scanned
    /\ {"Neo", "duplicates"} \subseteq scanned
    /\ "Neo/Neo.ttf" \in DOMAIN fsFiles /\ fsFiles["Neo/Neo.ttf"] = "old"

\* the files of a file system that lie below a directory
FilesUnder(files, dir) == {f \in DOMAIN files : Under(f, dir)}

\* every file the folder held at the start is now below target, and nowhere else
RelocatedTo(folder, target) ==
    \A f \in FilesUnder(gStart.files, folder) :
        /\ \E g \in FilesUnder(dFiles, target) : dFiles[g] = gStart.files[f]
        /\ \A g \in DOMAIN dFiles : dFiles[g] = gStart.files[f] => Under(g, target)

\* every file the folder held at the start is where it was
LeftInPlace(folder) ==
    /\ folder \in dDirs
    /\ \A f \in FilesUnder(gStart.files, folder) :
          f \in DOMAIN dFiles /\ dFiles[f] = gStart.files[f]

\* C11: when group_by_foundry returns Ok, every top-level folder F (other
\* than duplicates) that held a font with foundry D has all its files under
\* clean(D)/F and was handled once, and every top-level folder without
\* readable font metadata still holds its files at their paths, whatever the
\* order of the families. Stated for runs in which no system call failed for
\* an outside reason.
C11_GroupedOnce ==
    (gPc = "done" /\ gResult = "Ok" /\ dFaults = 0) =>
        \A folder \in TopLevelDirs(gStart.dirs) \ {"duplicates"} :
            IF FontsWithMetadata(gStart.files, folder) # {}
            THEN /\ folder \in DOMAIN family_folders
                 /\ RelocatedTo(folder, join(family_to_foundry[folder], folder))
            ELSE LeftInPlace(folder)

\* the order of the system calls: rename, then copy only after a failed
\* rename, then remove only after a successful copy
CallOrder(calls) ==
    /\ Len(calls) >= 1
    /\ calls[1].op = "rename"
    /\ calls[1].ok => Len(calls) = 1
    /\ ~calls[1].ok =>
          /\ Len(calls) >= 2
          /\ calls[2].op = "copy"
          /\ ~calls[2].ok => Len(calls) = 2
          /\ calls[2].ok => (Len(calls) = 3 /\ calls[3].op = "remove")

DestHoldsSource == xDest \in DOMAIN xFiles /\ xFiles[xDest] = xBefore[xSrc]

\* C7: safe_move_file on an existing source tries rename, then copy, then
\* the delete of the source; it returns Ok exactly when the destination
\* holds the source's content (the rename or the copy succeeded, whatever the
\* delete did) and Err only when rename and copy both failed, the source
\* then being present with its content.
C7_MoveFile ==
    (xPc = "done" /\ xSrc \in DOMAIN xBefore) =>
        /\ CallOrder(xCalls)
        /\ xRes \in {"Ok", "Err"}
        /\ xRes = "Ok" <=> DestHoldsSource
        /\ xRes = "Ok" <=> (xCalls[1].ok \/ xCalls[2].ok)
        /\ xRes = "Err" =>
              /\ ~xCalls[1].ok /\ ~xCalls[2].ok
              /\ xSrc \in DOMAIN xFiles
              /\ xFiles[xSrc] = xBefore[xSrc]

\* the copy succeeded and the delete of the source failed: Ok, the source
\* still there
C7_Witness ==
    /\ xPc = "done"
    /\ xSrc \in DOMAIN xBefore
    /\ Len(xCalls) = 3
    /\ ~xCalls[3].ok
    /\ xRes = "Ok"
    /\ xSrc \in DOMAIN xFiles
    /\ DestHoldsSource

\* the foundries of the fonts of the bucket a logged move belongs to
FoundriesOf(key) ==
    {font_metadata_map[f].foundry : f \in Range(merged_family_groups[key])}

\* C8: every organised font goes to clean(foundry)/clean(normalizedFamily)
\* when the pattern is FoundryFamily or group_by_foundry is set, and to
\* clean(normalizedFamily) otherwise. Stated for runs in which no system call
\* failed and for buckets whose fonts name one foundry, so that only the
\* choice between the one-level and the two-level directory is at stake.
C8_TargetDirectory ==
    faults = 0 =>
        \A i \in 1..Len(moveLog) :
            LET e == moveLog[i]
                metadata == font_metadata_map[e.src]
            IN Cardinality(FoundriesOf(e.key)) = 1 =>
                  e.dir = IF \/ config.naming_pattern = "FoundryFamily"
                             \/ config.group_by_foundry
                          THEN join(clean_name(metadata.foundry), clean_name(e.key))
                          ELSE clean_name(e.key)

\* C9: normalize_family_name is idempotent.
C9_Idempotent == nPc = "twice" => nTwice = nOnce

\* C10: normalize_family_name returns a non-empty string without leading or
\* trailing whitespace, and "Unknown" for an input that is empty after trimming.
C10_NonEmptyTrimmed ==
    nPc \in {"once", "twice"} =>
        /\ nOnce # ""
        /\ trim(nOnce) = nOnce
        /\ (trim(nName) = "" => nOnce = "Unknown")

\* the first merge_directories call is about to return Ok: every entry of
\* src has been visited
MergeReturnsOk ==
    /\ dPc = "merging"
    /\ Len(dResults) = 0
    /\ Len(dStack) = 1
    /\ Head(dStack).todo = {}

\* every file move of the merge succeeded: no file is left under src
EveryMoveSucceeded == FilesUnder(dFiles, dSrc) = {}

\* the name a file moved by the merge can have at g: the name it had, or on a
\* clash <stem>_n.<ext> with every smaller n taken
MergedName(f, g) ==
    LET name == file_name(f)
        candidate(n) == join(parent(g), file_stem(name) \o "_" \o Decimal(n) \o "." \o extension(name))
    IN \/ file_name(g) = name
       \/ /\ exists(dFiles, dDirs, join(parent(g), name))
          /\ \E n \in 1..(Cardinality(DOMAIN dFiles) + 1) :
                /\ g = candidate(n)
                /\ \A m \in 1..(n - 1) : exists(dFiles, dDirs, candidate(m))

\* what merge_directories does to the files, when it returns Ok and every
\* file move succeeded
MergedFiles ==
    /\ \A f \in FilesUnder(dStart[1].files, dSrc) :
          \E g \in FilesUnder(dFiles, dDest) :
             /\ dFiles[g] = dStart[1].files[f]
             /\ parent(g) = Rebase(parent(f), dSrc, dDest)
             /\ MergedName(f, g)
    /\ \A g \in FilesUnder(dStart[1].files, dDest) :
          g \in DOMAIN dFiles /\ dFiles[g] = dStart[1].files[g]
    /\ Cardinality(FilesUnder(dFiles, dDest)) =
          Cardinality(FilesUnder(dStart[1].files, dDest))
          + Cardinality(FilesUnder(dStart[1].files, dSrc))

PositionOf(name) == CHOOSE k \in 1..Len(qFamilies) : qFamilies[k].name = name

\* the groups the second pass added to the bucket of a primary family
AbsorbedBy(primary) ==
    {qFamilies[k].name : k \in {k \in 1..Len(qFamilies) :
        /\ qFamilies[k].name # primary
        /\ \E i \in 1..Len(qBuckets[primary]) : qBuckets[primary][i] = qFamilies[k].fonts[1]}}

\* C22: in every merged bucket the group that names the bucket had at least
\* as many fonts as each group absorbed into it, and comes no later than
\* that group in the descending-size order.
C22_PrimaryIsLargest ==
    qPc = "merged" =>
        \A primary \in DOMAIN qBuckets :
        \A other \in AbsorbedBy(primary) :
            /\ Len(qFamilies[PositionOf(primary)].fonts) >= Len(qFamilies[PositionOf(other)].fonts)
            /\ PositionOf(primary) < PositionOf(other)

\* processor.rs 31-32: the form the names are compared in
SimNorm(name) == trim(replace(to_lowercase(name), "_", " "))

\* the two names reach the common-prefix test and their edit distance is too
\* large for the last test
PrefixDecides(n1, n2) ==
    LET min_len == Min2(Len(n1), Len(n2))
        words1 == split_whitespace(n1)
        words2 == split_whitespace(n2)
    IN /\ n1 # "" /\ n2 # "" /\ n1 # n2
       /\ CharAt(n1, 0) = CharAt(n2, 0)
       /\ ~starts_with(n1, n2) /\ ~starts_with(n2, n1)
       /\ ~(words1[1] = words2[1] /\ Len(words1[1]) >= 4)
       /\ levenshtein_distance(n1, n2) > Max2(1, min_len \div 5)

\* C23: two names with the same first character that are not equal, not
\* prefix-related, share no first word of four or more characters and are too
\* far apart in edit distance are similar only if the shorter has four or more
\* characters and the common prefix covers at least 70% of its length.
C23_PrefixSeventyPercent ==
    (aPc = "done" /\ PrefixDecides(SimNorm(aName1), SimNorm(aName2)) /\ aSimilar.fwd) =>
        LET min_len == Min2(Len(SimNorm(aName1)), Len(SimNorm(aName2)))
        IN /\ min_len >= 4
           /\ 10 * common_prefix_len(SimNorm(aName1), SimNorm(aName2)) >= 7 * min_len

\* the groups whose fonts are in the bucket
GroupsIn(bucket) ==
    {qFamilies[k].name : k \in {k \in 1..Len(qFamilies) :
        \E i \in 1..Len(qBuckets[bucket]) : qBuckets[bucket][i] = qFamilies[k].fonts[1]}}

\* C24, the function: two names whose first characters differ after
\* lower-casing, underscores to spaces and trimming are never similar,
\* whatever their edit distance, shared words or lengths.
C24_FirstCharacterCutoff ==
    (aPc = "done" /\ CharAt(SimNorm(aName1), 0) # CharAt(SimNorm(aName2), 0)) =>
        ~aSimilar.fwd

\* C24, the merge: no bucket holds two groups whose keys start, in that
\* form, with different characters.
C24_BucketsShareFirstCharacter ==
    qPc = "merged" =>
        \A bucket \in DOMAIN qBuckets :
        \A g1, g2 \in GroupsIn(bucket) :
            CharAt(SimNorm(g1), 0) = CharAt(SimNorm(g2), 0)

\* two names one edit apart that differ in the first character
C24_Witness ==
    /\ aPc = "done"
    /\ aName1 = "ab"
    /\ aName2 = "bb"
    /\ ~aSimilar.fwd

\* C25: two different bucket keys of one run get different directories, so
\* the fonts of two groups are never moved into the same folder.
C25_DistinctDirectories ==
    qPc = "merged" =>
        \A k1, k2 \in DOMAIN qBuckets :
            k1 # k2 =>
                family_dir_of([group_by_foundry |-> FALSE], k1, <<>>, TRUE)
                # family_dir_of([group_by_foundry |-> FALSE], k2, <<>>, TRUE)

\* the preserve terms as the tokens the spec names
PreserveTokens == {"Alt", "CF", "NF", "SC", "Text", "Display", "Serif", "Mono"}

\* C26: a family name that has a preserve term as a whole
\* whitespace-delimited token, at any token position, and does not end in
\* " Variable" is returned unchanged by normalize_family_name, also when it
\* ends in a style or weight token.
C26_PreserveTerms ==
    (/\ nPc \in {"once", "twice"}
     /\ Range(split_whitespace(nName)) \cap PreserveTokens # {}
     /\ ~ends_with(nName, " Variable")) =>
        nOnce = nName

\* the first run collected fonts, moved every one of them, and every
\* safe_move_file call returned Ok
FirstRunMovedAll ==
    /\ rRun = 2
    /\ rFirst.store # {}
    /\ \A path \in rFirst.store :
          \E i \in 1..Len(rFirst.log) : rFirst.log[i].src = path
    /\ \A i \in 1..Len(rFirst.log) : rFirst.log[i].res = "Ok"

FirstRunLeftNoSource ==
    \A i \in 1..Len(rFirst.log) : rFirst.log[i].src \notin DOMAIN rFirst.files

C28_SimilarIsSymmetric ==
    aPc = "done" => aSimilar.fwd = aSimilar.bwd

\* a shorter name that is a prefix of the longer one, compared in both orders
C28_Witness ==
    /\ aPc = "done"
    /\ aName1 = "aab"
    /\ aName2 = "aa"
    /\ aSimilar.fwd
    /\ aSimilar.bwd

\* C28, the merge: after the first pass no two primary families are similar.
C28_PrimariesDissimilar ==
    qPc = "merged" =>
        \A i, j \in 1..Len(qFirst.primary) :
            i # j => ~are_family_names_similar(qFirst.primary[i], qFirst.primary[j])

\* the family folder being moved is named like the cleaned foundry of its font
FolderIsOwnFoundry ==
    /\ gFamily # ""
    /\ family_to_foundry[gFamily] = gFamily

\* the deepest directory of the tree group_by_foundry was called on
StartDepth == SetMax({Depth(d) : d \in gStart.dirs})

\* C29: when a family folder is named like the cleaned foundry of its own
\* font, group_by_foundry merges no directory into itself or into its own
\* subtree, and makes no directory more than one level deeper than the
\* tree it was called on.
C29_NoMoveIntoOwnSubtree ==
    FolderIsOwnFoundry =>
        /\ \A i \in 1..Len(dStack) :
               /\ dStack[i].dest # dStack[i].src
               /\ ~Under(dStack[i].dest, dStack[i].src)
        /\ \A d \in dDirs : Depth(d) <= StartDepth + 1

\* the mutexes a worker holds
LocksHeldBy(w) == {l \in ScanLocks : sLock[l] = w}

\* a worker holds at most one mutex, and only at the one map or set operation
\* the mutex was taken for: never while it reads the font file
LockDiscipline ==
    \A w \in ScanWorkers :
        /\ Cardinality(LocksHeldBy(w)) <= 1
        /\ \A l \in LocksHeldBy(w) :
               \E pc \in {"check", "store", "index"} :
                   l = LockAt(pc) /\ wPc[w] = HoldingAt(pc)
        /\ wPc[w] \in {"start", "check", "extract", "store", "index", "done"}
               => LocksHeldBy(w) = {}

\* C30: in the parallel scan a worker holds a mutex only for one map or set
\* operation, never two at a time and never while reading a font file, and
\* the scan completes.
C30_ScanCompletes ==
    /\ []LockDiscipline
    /\ <>(sPc = "done")

\* one worker is inside the Metadata Store's mutex while a second waits for
\* it and a third reads its font file
C30_Witness ==
    \E w1, w2, w3 \in ScanWorkers :
        /\ sLock["font_metadata_map"] = w1
        /\ wPc[w1] = "storing"
        /\ wPc[w2] = "store"
        /\ wPc[w3] = "extract"

====
